---------------------------- MODULE Spec2Model ----------------------------
(***************************************************************************)
(* Access-control core of src/app.py: the Wiegand pulse callback and       *)
(* reader thread, the 26-bit decoder, the credential queue, the            *)
(* access-decision tick and the relay (door) operations.                   *)
(*                                                                         *)
(* Strings are sequences of one-character strings; Python's None is the    *)
(* record field none = TRUE.  Python list indices are 0-based: the slice   *)
(* bits[a:b] is Slice(bits, a, b), the positions a+1 .. b of the sequence. *)
(***************************************************************************)
EXTENDS Integers, Sequences, FiniteSets, TLC

VARIABLES
    \* ---- decoder harness (inputs of _wiegand_process_data)
    src,            \* where the frame under decode came from: raw bits or a (fc, cn) pair
    dpc,            \* position of the decoder harness
    \* ---- run_wiegand_reader_thread locals
    bits,           \* the snapshot list `bits`
    cid,            \* the result `cid` of _wiegand_process_data(bits)
    \* ---- process globals and hardware
    mainpc,             \* position of the main module: "init", "running"
    HARDWARE_AVAILABLE, \* the global flag set by setup_gpio
    relay,              \* level of the output pin RELAY_PIN: 1 locked, 0 unlocked
    jobs,               \* the scheduler's job store: the jobs in the order they were added
    wiegand_queue,      \* the items held by wiegand_queue, oldest first
    unfinished_tasks,   \* wiegand_queue.unfinished_tasks (put: +1, task_done: -1)
    cardsLeft,          \* environment: cards still to be presented to the reader
    accessLog,          \* rows of the AccessLog table, oldest first
    \* ---- process_wiegand_queue_task (one instance: max_instances=1)
    tpc,            \* position of the tick
    uid,            \* local uid
    processed,      \* local processed
    decision,       \* arguments of the tick's log_access_event call
    now_local,      \* check_schedule's local now_local (weekday, minute of day)
    \* ---- calls of activate_relay / lock_door / unlock_door_permanently,
    \* ---- one per execution context (the tick's thread, an API request thread)
    rop,            \* the operation a context is in: "none", "open", "lock", "unlock"
    rpc,            \* its position in that operation
    conn,           \* pi_relay.connected of the call
    res,            \* the success flag the call returns
    secErr,         \* activate_relay: the re-assertion raised (e_sec)
    \* ---- Wiegand capture: globals, the pigpio callback thread, the reader thread
    collector,      \* the list bound to _wiegand_bits_collector
    last_pulse_tick,\* _last_pulse_tick
    clock,          \* the daemon's tick counter (microseconds, 32 bits)
    wire,           \* environment: the bits the reader head has still to pulse
    cbpc,           \* position of _wiegand_pulse_callback in the callback thread
    ev,             \* its arguments (gpio, level, tick)
    wpc,            \* position of run_wiegand_reader_thread in its inner loop
    tick_now,       \* local tick_now
    nAppended,      \* history: bits the callback has appended
    nFramed,        \* history: bits the reader thread has copied into snapshots
    last_edge_tick, \* history: the tick of the last pulse appended
    nIgnored,       \* history: pulses the callback returned on without appending
    nSnap26,        \* history: snapshots of WIEGAND_EXPECTED_BITS bits taken
    \* ---- start_wiegand_thread_once / run_wiegand_reader_thread (connection)
    daemon,         \* pigpiod accepts connections
    wiegand_thread_started,
    lpc,            \* position of the reader thread in its outer loop
    pi,             \* the thread's local pi: None or a handle
    cb0,            \* the thread's local cb0: None or the handle it is registered on
    cb1,
    subs,           \* edge callbacks registered and not cancelled: [pin, h]
    live,           \* handles whose connection to the daemon is up
    nconn,          \* handles the thread has connected so far
    ndrops,         \* times the daemon went away
    faults,         \* exceptions raised in the collecting loop on a live handle
    last_wait,      \* history: seconds slept in the current iteration
    tried,          \* history: the thread has called pigpio.pi()
    half,           \* history: D1 failed to register after D0 had, this iteration
    delivered,      \* history: callback invocations for the last physical pulse
    \* ---- check_schedule harness (inputs and result of one evaluation)
    keyfob,         \* the Keyfob row passed as keyfob
    sched_now,      \* the value datetime.now() returns during the call
    spc,            \* position of the harness
    sched_ret,      \* the tick's decision for the row, with check_schedule's value
    \* ---- update_scheduler_job harness
    scheduler_running,  \* scheduler.running
    backup_config,      \* the config passed to update_scheduler_job
    applied,            \* history: calls of update_scheduler_job so far
    jobs_once,          \* history: the job store after the first call
    jobs_found,         \* history: the job store the first call found
    xpc,                \* the process: "main", "serving", "finalizing", "exited"
    atexit_funcs,       \* the functions registered with atexit, in order
    hook,               \* the exit function being run and its position
    nsig,               \* signals delivered so far
    cleanup_runs,       \* history: runs of cleanup_gpio that reached their end
    cleanup_wrote,      \* history: the level cleanup_gpio wrote to the relay
    exit_relay,         \* history: the relay level when finalization began
    \* ---- the settings file and the frames of the door calls
    settings_opening_time,  \* the value stored under 'opening_time', if any
    duration,           \* per context: the argument duration of activate_relay
    activation_time,    \* per context: the local activation_time
    wfail,              \* per context, history: a pi_relay.write of the call raised
    reassert,           \* per context, history: the except handler wrote the locked level
    perm_since,         \* history, None where it is not kept: unlock_door_permanently
                        \* succeeded after the last lock_door that succeeded and the
                        \* last completed momentary open
    perm_unlocked,      \* history: unlock_door_permanently succeeded and no lock_door or
                        \* activate_relay call has been made since
    \* ---- history of the credential queue
    qseq,               \* for each queued item, oldest first: its arrival number
    last_dequeued,      \* arrival number of the item get_nowait returned last (0: none)
    tick_first,         \* history: last_dequeued when the running tick began
    exc_seq,            \* history: arrival number of the last item whose processing raised
    instances,          \* the executor's count of running instances of the tick job
    missed,             \* history: a run of the tick job was skipped since the last start
    \* ---- set_opening_time / get_opening_time harness
    cpc,                \* position: "idle", "set_done", "get_done"
    cfg_call            \* argument and results of the calls made

decVars    == <<src, dpc, bits, cid>>
hwVars     == <<mainpc, HARDWARE_AVAILABLE, relay, jobs>>
queueVars  == <<wiegand_queue, unfinished_tasks, cardsLeft>>
tickVars   == <<tpc, uid, processed, decision, now_local>>
callVars   == <<rop, rpc, conn, res, secErr>>
engineVars == <<hwVars, queueVars, accessLog, tickVars, callVars>>

connVars   == <<daemon, wiegand_thread_started, lpc, pi, cb0, cb1, subs, live,
                nconn, ndrops, faults, last_wait, tried, half, delivered>>
readerHist == <<last_edge_tick, nIgnored, nSnap26, connVars>>
readerVars == <<collector, last_pulse_tick, clock, wire, cbpc, ev, wpc, tick_now,
                nAppended, nFramed, readerHist>>

schedVars  == <<keyfob, sched_now, spc, sched_ret>>
\* the groups beside decoder, engine and capture
jobVars    == <<scheduler_running, backup_config, applied, jobs_once, jobs_found>>
cfgVars    == <<settings_opening_time, cpc, cfg_call>>
frameVars  == <<duration, activation_time, wfail, reassert, perm_since>>
instVars   == <<instances, missed>>
fifoVars   == <<qseq, last_dequeued, tick_first, exc_seq, instVars>>
exitVars   == <<xpc, atexit_funcs, hook, nsig, cleanup_runs, cleanup_wrote, exit_relay>>
extVars    == <<schedVars, jobVars, cfgVars, frameVars, perm_unlocked, fifoVars, exitVars>>

vars == <<decVars, engineVars, readerVars, extVars>>

Ctx == {"tick", "api"}

\* no credential / no keyfob / nothing decided yet
NoDecision == [granted |-> FALSE, reason |-> "", keyfob_id |-> 0]
NoTime     == [weekday |-> <<>>, minute |-> 0]

\* the decoder harness is not part of the specification
DecoderOff ==
    /\ src = [kind |-> "raw", fc |-> 0, cn |-> 0, p0 |-> 0, pN |-> 0]
    /\ dpc = "off"
    /\ bits = <<>>
    /\ cid = [none |-> TRUE, id |-> 0, p0_ok |-> FALSE, pN_ok |-> FALSE]

\* the reader thread's connection loop is not part of the specification
ConnOff ==
    /\ daemon = FALSE /\ wiegand_thread_started = FALSE /\ lpc = "off"
    /\ pi = <<>> /\ cb0 = <<>> /\ cb1 = <<>> /\ subs = {} /\ live = {}
    /\ nconn = 0 /\ ndrops = 0 /\ faults = 0 /\ last_wait = 0
    /\ tried = FALSE /\ half = FALSE /\ delivered = 0

\* the Wiegand capture is not part of the specification
ReaderOff ==
    /\ collector = <<>> /\ last_pulse_tick = 0 /\ clock = 0 /\ wire = <<>>
    /\ cbpc = "off" /\ ev = [gpio |-> 0, level |-> 0, tick |-> 0]
    /\ wpc = "off" /\ tick_now = 0
    /\ nAppended = 0 /\ nFramed = 0
    /\ last_edge_tick = 0 /\ nIgnored = 0 /\ nSnap26 = 0
    /\ ConnOff

\* the engine is not part of the specification
EngineOff ==
    /\ mainpc = "off" /\ HARDWARE_AVAILABLE = FALSE /\ relay = 1 /\ jobs = <<>>
    /\ wiegand_queue = <<>> /\ unfinished_tasks = 0 /\ cardsLeft = 0
    /\ accessLog = <<>>
    /\ tpc = "idle" /\ uid = <<>> /\ processed = 0
    /\ decision = NoDecision /\ now_local = NoTime
    /\ rop = [c \in Ctx |-> "none"] /\ rpc = [c \in Ctx |-> "none"]
    /\ conn = [c \in Ctx |-> FALSE] /\ res = [c \in Ctx |-> FALSE]
    /\ secErr = [c \in Ctx |-> FALSE]

\* the check_schedule harness is not part of the specification
ScheduleOff ==
    /\ keyfob = <<>> /\ sched_now = NoTime /\ spc = "off"
    /\ sched_ret = [ok |-> FALSE, decision |-> NoDecision]

\* the update_scheduler_job harness is not part of the specification
SchedulerOff ==
    /\ scheduler_running = FALSE /\ backup_config = <<>>
    /\ applied = 0 /\ jobs_once = <<>> /\ jobs_found = <<>>

\* Python's None, and a value that is not None
None == <<>>
Some(v) == <<v>>

\* the stored 'opening_time': absent (no file, unreadable file or no key: the
\* default is filled in), an integer, text that int() rejects, or a JSON
\* number beyond the range of a float (1e400), which json.load reads as inf
Absent == [kind |-> "absent", v |-> 0]
Stored(n) == [kind |-> "int", v |-> n]
Garbled == [kind |-> "text", v |-> 0]
Infinite == [kind |-> "inf", v |-> 0]

NoCfgCall ==
    [set |-> FALSE, arg |-> 0, ok |-> FALSE, before |-> Absent, got |-> 0,
     raised |-> FALSE]

\* no door call is in progress in any context
FramesIdle ==
    /\ duration = [c \in Ctx |-> None]
    /\ activation_time = [c \in Ctx |-> 0]
    /\ wfail = [c \in Ctx |-> FALSE]
    /\ reassert = [c \in Ctx |-> FALSE]
    /\ perm_since = <<>>
    /\ perm_unlocked = FALSE
    /\ qseq = <<>> /\ last_dequeued = 0 /\ tick_first = 0 /\ exc_seq = 0
    /\ instances = 0 /\ missed = FALSE

\* the frame of context c after the call returned to its caller
FrameReset(c) ==
    /\ duration' = [duration EXCEPT ![c] = None]
    /\ activation_time' = [activation_time EXCEPT ![c] = 0]
    /\ wfail' = [wfail EXCEPT ![c] = FALSE]
    /\ reassert' = [reassert EXCEPT ![c] = FALSE]
    /\ perm_since' = perm_since

\* no exit function is running
NoHook == [name |-> "none", pc |-> "none"]

\* the shutdown sequence is not part of the specification
ExitOff ==
    /\ xpc = "off" /\ atexit_funcs = <<>> /\ hook = NoHook /\ nsig = 0
    /\ cleanup_runs = 0 /\ cleanup_wrote = None /\ exit_relay = None

\* the settings harness is not part of the specification
SettingsOff == cpc = "off" /\ cfg_call = NoCfgCall

ExtOff ==
    /\ ScheduleOff /\ SchedulerOff
    /\ settings_opening_time = Absent /\ SettingsOff /\ FramesIdle /\ ExitOff

-----------------------------------------------------------------------------
(* Program constants *)

WIEGAND_EXPECTED_BITS == 26

(* Bounds of the model *)

\* a raw input frame has at most MaxOnes ones, or at most MaxOnes zeros
MaxOnes == 2
\* a facility code / card number drawn for encoding lies within SampleWidth
\* of one of the landmark values of its field
SampleWidth == 1

-----------------------------------------------------------------------------
(* Python helpers *)

RECURSIVE Pow2(_)
Pow2(n) == IF n = 0 THEN 1 ELSE 2 * Pow2(n - 1)

\* bits[a:b] of a Python list (0-based, b exclusive, clipped to the length)
Slice(s, a, b) ==
    LET hi == IF b < Len(s) THEN b ELSE Len(s)
    IN  IF a >= hi THEN <<>> ELSE [i \in 1..(hi - a) |-> s[a + i]]

\* sum(list)
RECURSIVE PySum(_)
PySum(s) == IF s = <<>> THEN 0 ELSE Head(s) + PySum(Tail(s))

\* "".join(map(str, bits)): the string of the bits' decimal digits
StrOfBit(b) == IF b = 0 THEN "0" ELSE "1"
JoinBits(s) == [i \in 1..Len(s) |-> StrOfBit(s[i])]

\* int(text, 2): the characters read left to right, most significant first
DigitOfChar(c) == IF c = "1" THEN 1 ELSE 0
RECURSIVE IntBase2Acc(_, _)
IntBase2Acc(text, acc) ==
    IF text = <<>> THEN acc
    ELSE IntBase2Acc(Tail(text), 2 * acc + DigitOfChar(Head(text)))
IntBase2(text) == IntBase2Acc(text, 0)

\* a << n and a | b on Python's unbounded non-negative integers
ShiftLeft(a, n) == a * Pow2(n)
RECURSIVE BitOr(_, _)
BitOr(a, b) ==
    IF a = 0 THEN b
    ELSE IF b = 0 THEN a
    ELSE 2 * BitOr(a \div 2, b \div 2)
         + (IF (a % 2 = 1) \/ (b % 2 = 1) THEN 1 ELSE 0)

-----------------------------------------------------------------------------
(* _wiegand_process_data *)

NoId == [none |-> TRUE, id |-> 0, p0_ok |-> FALSE, pN_ok |-> FALSE]

\* the two parity checks: they only log a warning
ParityP0(b) == (PySum(Slice(b, 1, 13)) % 2) = b[1]
ParityPN(b) == (PySum(Slice(b, 13, 25)) % 2) # b[26]

\* facility code and card number
ExtractFc(b) == IntBase2(JoinBits(Slice(b, 1, 9)))
ExtractCn(b) == IntBase2(JoinBits(Slice(b, 9, 25)))
CombinedId(fc, cn) == BitOr(ShiftLeft(fc, 16), cn)

\* MUTANT: only too-short frames are rejected (< instead of !=)
LengthMismatch_Mut(b) == Len(b) < WIEGAND_EXPECTED_BITS
LengthMismatch(b) == Len(b) # WIEGAND_EXPECTED_BITS

\* bits[0] or bits[25] raises IndexError on a list that short
ParityIndexError(b) == Len(b) < 26
\* int("", 2) raises ValueError
FieldsValueError(b) == Slice(b, 1, 9) = <<>> \/ Slice(b, 9, 25) = <<>>

\* MUTANT: the facility code shifted by 8 instead of 16
DecodeFields_Mut(b) == BitOr(ShiftLeft(ExtractFc(b), 8), ExtractCn(b))
DecodeFields(b) == CombinedId(ExtractFc(b), ExtractCn(b))

\* MUTANT: a failed parity check rejects the frame
wiegand_process_data_Mut(b) ==
    IF LengthMismatch(b) THEN NoId
    ELSE IF ParityIndexError(b) THEN NoId
    ELSE IF ~(ParityP0(b) /\ ParityPN(b)) THEN NoId
    ELSE IF FieldsValueError(b) THEN NoId
    ELSE [none |-> FALSE, id |-> DecodeFields(b),
          p0_ok |-> ParityP0(b), pN_ok |-> ParityPN(b)]
wiegand_process_data(b) ==
    IF LengthMismatch(b) THEN NoId
    ELSE IF ParityIndexError(b) THEN NoId
    ELSE IF FieldsValueError(b) THEN NoId
    ELSE [none |-> FALSE, id |-> DecodeFields(b),
          p0_ok |-> ParityP0(b), pN_ok |-> ParityPN(b)]

-----------------------------------------------------------------------------
(* Decoder harness: the frames the decoder is applied to *)

\* the frame of length len whose ones (zeros, if inv) are at the positions ones
PatternFrame(len, ones, inv) ==
    [i \in 1..len |-> IF (i \in ones) # inv THEN 1 ELSE 0]

\* the position sets of at most MaxOnes positions of 1..len
SmallSets(len) ==
    {{p[i] : i \in 1..MaxOnes} \ {0} : p \in [1..MaxOnes -> 0..len]}

DecoderLengths ==
    {0, WIEGAND_EXPECTED_BITS - 1, WIEGAND_EXPECTED_BITS,
     WIEGAND_EXPECTED_BITS + 1, WIEGAND_EXPECTED_BITS + 8}

RawFrames ==
    UNION {{PatternFrame(len, ones, inv) : ones \in SmallSets(len), inv \in BOOLEAN}
           : len \in DecoderLengths}

Near(landmarks, lo, hi) ==
    {v \in lo..hi : \E m \in landmarks : v - m \in (0 - SampleWidth)..SampleWidth}
FacilityInputs == Near({0, 128, 255}, 0, 255)
CardInputs     == Near({0, 256, 32768, 65535}, 0, 65535)

\* the width-bit big-endian binary digits of v
BinDigits(v, width) == [i \in 1..width |-> (v \div Pow2(width - i)) % 2]

\* the inverse of the extraction rule: parity, 8 facility bits, 16 card bits, parity
EncodeFrame(fc, cn, p0, pN) ==
    <<p0>> \o BinDigits(fc, 8) \o BinDigits(cn, 16) \o <<pN>>

NoSrc == [kind |-> "raw", fc |-> 0, cn |-> 0, p0 |-> 0, pN |-> 0]

DecoderInit ==
    /\ EngineOff /\ ReaderOff /\ ExtOff
    /\ cid = NoId
    /\ \/ /\ bits \in RawFrames
          /\ src = NoSrc
          /\ dpc = "frame"
       \/ /\ bits = <<>>
          /\ \E fc \in FacilityInputs, cn \in CardInputs, p0 \in {0, 1}, pN \in {0, 1} :
                src = [kind |-> "pair", fc |-> fc, cn |-> cn, p0 |-> p0, pN |-> pN]
          /\ dpc = "pair"

\* build the frame of a (facility, card) pair
EncodeInput ==
    /\ dpc = "pair"
    /\ bits' = EncodeFrame(src.fc, src.cn, src.p0, src.pN)
    /\ dpc' = "frame"
    /\ UNCHANGED <<extVars, src, cid, engineVars, readerVars>>

\* cid = _wiegand_process_data(bits)
DecodeFrame ==
    /\ dpc = "frame"
    /\ cid' = wiegand_process_data(bits)
    /\ dpc' = "decoded"
    /\ UNCHANGED <<extVars, src, bits, engineVars, readerVars>>

DecoderNext == EncodeInput \/ DecodeFrame

SpecDecoder == DecoderInit /\ [][DecoderNext]_vars

-----------------------------------------------------------------------------
(* Decoder claims *)

\* the value of the positions lo..hi of b, most significant first, computed
\* as a weighted sum
FieldValue(b, lo, hi) ==
    LET RECURSIVE W(_)
        W(i) == IF i > hi THEN 0 ELSE b[i] * Pow2(hi - i) + W(i + 1)
    IN  W(lo)

\* C7: for every bit sequence whose length is not 26 (the empty one, 25, 27
\* and 34 bits included) _wiegand_process_data returns None.
C7_WrongLengthRejected ==
    (dpc = "decoded" /\ Len(bits) # 26) => cid.none

C7_Witness ==
    dpc = "decoded" /\ Len(bits) = 25 /\ cid.none /\ \E i \in 1..25 : bits[i] = 1

\* C8: for every 26-bit frame the decoder returns (facility << 16) | card with
\* facility the big-endian value of bits 1..8 (0..255) and card that of bits
\* 9..24 (0..65535); the result is below 2^24 and the fields do not overlap.
C8_CombinedIdExact ==
    (dpc = "decoded" /\ Len(bits) = 26) =>
        LET fc == FieldValue(bits, 2, 9)
            cn == FieldValue(bits, 10, 25)
        IN  /\ ~cid.none
            /\ fc \in 0..255 /\ cn \in 0..65535
            /\ cid.id = fc * 65536 + cn
            /\ cid.id \in 0..(16777216 - 1)
            /\ cid.id \div 65536 = fc
            /\ cid.id % 65536 = cn

C8_Witness ==
    /\ dpc = "decoded" /\ Len(bits) = 26 /\ src.kind = "raw"
    /\ FieldValue(bits, 2, 9) = 255 /\ FieldValue(bits, 10, 25) = 65535 - 1
    /\ cid.id = 16777216 - 2

\* C9: round trip: a frame built from a facility in 0..255 and a card in
\* 0..65535 by the inverse of the extraction rule, with any parity bits,
\* decodes to an ID whose high part (ID >> 16) is the facility and whose low
\* 16 bits (ID & 0xFFFF) are the card.
C9_RoundTrip ==
    (dpc = "decoded" /\ src.kind = "pair") =>
        /\ ~cid.none
        /\ cid.id \div 65536 = src.fc
        /\ cid.id % 65536 = src.cn

C9_Witness ==
    /\ dpc = "decoded" /\ src.kind = "pair"
    /\ src.fc = 129 /\ src.cn = 32767 /\ src.p0 = 1 /\ src.pN = 0
    /\ cid.id = 129 * 65536 + 32767

\* the frame b with its two parity bits replaced
WithParity(b, p0, pN) == [b EXCEPT ![1] = p0, ![26] = pN]

\* C10: parity does not gate extraction: every 26-bit frame yields an ID
\* whatever bit 0 and bit 25 are, and frames that differ only in those two
\* bits decode to the same ID.
C10_ParityDoesNotGate ==
    (dpc = "decoded" /\ Len(bits) = 26) =>
        /\ ~cid.none
        /\ \A p0 \in {0, 1}, pN \in {0, 1} :
              LET other == wiegand_process_data(WithParity(bits, p0, pN))
              IN  ~other.none /\ other.id = cid.id

\* a decoded frame both of whose parity checks fail
C10_Witness ==
    /\ dpc = "decoded" /\ Len(bits) = 26
    /\ ~cid.none /\ ~cid.p0_ok /\ ~cid.pN_ok

-----------------------------------------------------------------------------
(* Strings, the Keyfob table and check_schedule *)

\* str(n) of a non-negative integer
DigitChars == <<"0", "1", "2", "3", "4", "5", "6", "7", "8", "9">>
RECURSIVE DecStr(_)
DecStr(n) ==
    IF n < 10 THEN <<DigitChars[n + 1]>>
    ELSE DecStr(n \div 10) \o <<DigitChars[(n % 10) + 1]>>

\* str.lower(), on the characters the model's strings are made of
LowerChar(c) ==
    CASE c = "A" -> "a"  [] c = "B" -> "b"  [] c = "M" -> "m"
      [] c = "T" -> "t"  [] OTHER -> c
LowerStr(t) == [i \in 1..Len(t) |-> LowerChar(t[i])]

\* Keyfob.uid.ilike(uid) for a pattern without wildcards
ILike(stored, pattern) == LowerStr(stored) = LowerStr(pattern)

\* datetime.time values are minutes of the day (None: no time stored)
T(h, m) == Some(h * 60 + m)

\* the IDs of the cards presented to the reader
CardIds == {10, 11, 12, 13}

\* rows of the Keyfob table (the core only reads them); activation_days is
\* the list of the comma-separated parts of the stored string
Keyfobs == <<
    [id |-> 1, uid |-> <<"1", "0">>, is_active |-> TRUE,
     activation_schedule_enabled |-> FALSE,
     activation_days |-> << <<"t", "u", "e">> >>,
     activation_start_time |-> T(22, 0), activation_end_time |-> T(6, 0)],
    [id |-> 2, uid |-> <<"1", "1">>, is_active |-> FALSE,
     activation_schedule_enabled |-> TRUE,
     activation_days |-> << <<"m", "o", "n">>, <<"t", "u", "e">> >>,
     activation_start_time |-> None, activation_end_time |-> None],
    [id |-> 3, uid |-> <<"1", "2">>, is_active |-> TRUE,
     activation_schedule_enabled |-> TRUE,
     activation_days |-> << <<"M", "o", "n">> >>,
     activation_start_time |-> T(8, 0), activation_end_time |-> T(18, 0)],
    [id |-> 4, uid |-> <<"A", "B">>, is_active |-> TRUE,
     activation_schedule_enabled |-> FALSE, activation_days |-> <<>>,
     activation_start_time |-> None, activation_end_time |-> None] >>

NoKeyfob ==
    [id |-> 0, uid |-> <<>>, is_active |-> FALSE,
     activation_schedule_enabled |-> FALSE, activation_days |-> <<>>,
     activation_start_time |-> None, activation_end_time |-> None]

\* Keyfob.query.filter(Keyfob.uid.ilike(uid)).first()
KeyfobFirst(u) ==
    LET hits == {i \in 1..Len(Keyfobs) : ILike(Keyfobs[i].uid, u)}
    IN  IF hits = {} THEN NoKeyfob
        ELSE Keyfobs[CHOOSE i \in hits : \A j \in hits : i <= j]

\* the values datetime.now() takes in the model
Weekdays == {<<"m", "o", "n">>, <<"t", "u", "e">>}
Minutes  == {7 * 60, 9 * 60, 19 * 60}
ClockReadings == {[weekday |-> d, minute |-> m] : d \in Weekdays, m \in Minutes}

\* MUTANT: the activation_schedule_enabled test left out
check_schedule_NoFlag(kf, now) ==
    IF kf.activation_days = <<>> THEN FALSE
    ELSE LET allowed_days ==
                 {LowerStr(kf.activation_days[i]) : i \in 1..Len(kf.activation_days)}
             start == kf.activation_start_time
             end   == kf.activation_end_time
         IN  IF now.weekday \notin allowed_days THEN FALSE
             ELSE IF start = None \/ end = None THEN TRUE
             ELSE IF start[1] <= end[1]
                  THEN start[1] <= now.minute /\ now.minute < end[1]
                  ELSE now.minute >= start[1] \/ now.minute < end[1]
\* MUTANT: the end of a same-day window is included
check_schedule_EndIncluded(kf, now) ==
    IF ~kf.activation_schedule_enabled THEN TRUE
    ELSE IF kf.activation_days = <<>> THEN FALSE
    ELSE LET allowed_days ==
                 {LowerStr(kf.activation_days[i]) : i \in 1..Len(kf.activation_days)}
             start == kf.activation_start_time
             end   == kf.activation_end_time
         IN  IF now.weekday \notin allowed_days THEN FALSE
             ELSE IF start = None \/ end = None THEN TRUE
             ELSE IF start[1] <= end[1]
                  THEN start[1] <= now.minute /\ now.minute <= end[1]
                  ELSE now.minute >= start[1] \/ now.minute < end[1]
\* MUTANT: a window with start > end is read as a same-day window
check_schedule_NoWrap(kf, now) ==
    IF ~kf.activation_schedule_enabled THEN TRUE
    ELSE IF kf.activation_days = <<>> THEN FALSE
    ELSE LET allowed_days ==
                 {LowerStr(kf.activation_days[i]) : i \in 1..Len(kf.activation_days)}
             start == kf.activation_start_time
             end   == kf.activation_end_time
         IN  IF now.weekday \notin allowed_days THEN FALSE
             ELSE IF start = None \/ end = None THEN TRUE
             ELSE start[1] <= now.minute /\ now.minute < end[1]
\* MUTANT: a record without a time range is denied
check_schedule_NoRangeDenied(kf, now) ==
    IF ~kf.activation_schedule_enabled THEN TRUE
    ELSE IF kf.activation_days = <<>> THEN FALSE
    ELSE LET allowed_days ==
                 {LowerStr(kf.activation_days[i]) : i \in 1..Len(kf.activation_days)}
             start == kf.activation_start_time
             end   == kf.activation_end_time
         IN  IF now.weekday \notin allowed_days THEN FALSE
             ELSE IF start = None \/ end = None THEN FALSE
             ELSE IF start[1] <= end[1]
                  THEN start[1] <= now.minute /\ now.minute < end[1]
                  ELSE now.minute >= start[1] \/ now.minute < end[1]
\* check_schedule(keyfob) with now_local = now
check_schedule(kf, now) ==
    IF ~kf.activation_schedule_enabled THEN TRUE
    ELSE IF kf.activation_days = <<>> THEN FALSE
    ELSE LET allowed_days ==
                 {LowerStr(kf.activation_days[i]) : i \in 1..Len(kf.activation_days)}
             start == kf.activation_start_time
             end   == kf.activation_end_time
         IN  IF now.weekday \notin allowed_days THEN FALSE
             ELSE IF start = None \/ end = None THEN TRUE
             ELSE IF start[1] <= end[1]
                  THEN start[1] <= now.minute /\ now.minute < end[1]
                  ELSE now.minute >= start[1] \/ now.minute < end[1]

-----------------------------------------------------------------------------
(* wiegand_queue = queue.Queue() *)

\* maxsize of queue.Queue(): 0, which Python reads as "no limit"
wiegand_queue_maxsize == 0

\* Queue.full(): 0 < maxsize <= qsize
QueueFull(q) == 0 < wiegand_queue_maxsize /\ wiegand_queue_maxsize <= Len(q)

\* MUTANT: put places the item at the head, as queue.LifoQueue serves it
QueuePut_Mut(q, item) == IF QueueFull(q) THEN q ELSE <<item>> \o q
\* Queue.put(item, block=False): the items afterwards (a full queue raises
\* queue.Full and the caller drops the item)
QueuePut(q, item) == IF QueueFull(q) THEN q ELSE Append(q, item)

\* Queue.task_done(); called once too often it raises ValueError
TaskDone(n) == IF n > 0 THEN n - 1 ELSE n

(* Bounds of the model *)

\* cards presented to the reader in one run
MaxCards == 2

-----------------------------------------------------------------------------
(* Main module: setup_gpio, update_scheduler_job, start_wiegand_thread_once *)

EngineInit ==
    /\ DecoderOff /\ ReaderOff /\ ExtOff
    /\ mainpc = "init" /\ HARDWARE_AVAILABLE = FALSE
    /\ relay \in {0, 1}                 \* the pin's level at power-on
    /\ jobs = <<>>
    /\ wiegand_queue = <<>> /\ unfinished_tasks = 0 /\ cardsLeft = MaxCards
    /\ accessLog = <<>>
    /\ tpc = "idle" /\ uid = <<>> /\ processed = 0
    /\ decision = NoDecision /\ now_local = NoTime
    /\ rop = [c \in Ctx |-> "none"] /\ rpc = [c \in Ctx |-> "none"]
    /\ conn = [c \in Ctx |-> FALSE] /\ res = [c \in Ctx |-> FALSE]
    /\ secErr = [c \in Ctx |-> FALSE]

\* ---- the APScheduler calls update_scheduler_job makes, on the job store

backup_job_id  == "scheduled_backup_job"
wiegand_job_id == "wiegand_processor"
IntervalTrigger == [kind |-> "interval"]

\* scheduler.get_job(id) is not None
get_job(js, id) == \E i \in 1..Len(js) : js[i].id = id

\* scheduler.remove_job(id), for an id that get_job found
remove_job(js, id) == SelectSeq(js, LAMBDA j : j.id # id)

\* scheduler.add_job(..., id=..., replace_existing=...): a stopped scheduler
\* keeps the job as pending without looking at the ids it holds; a running one
\* replaces the job of the same id when replace_existing, and otherwise raises
\* ConflictingIdError (the caller logs it and the store is unchanged)
add_job(js, job, replace_existing, running) ==
    IF ~running \/ ~get_job(js, job.id) THEN Append(js, job)
    ELSE IF replace_existing
    THEN [i \in 1..Len(js) |-> IF js[i].id = job.id THEN job ELSE js[i]]
    ELSE js

\* load_auto_backup_config's default
DefaultBackupConfig ==
    [enabled |-> FALSE, frequency |-> "daily", time |-> <<3, 0>>]

\* CronTrigger(day_of_week, hour, minute) built from the config
BackupTrigger(config) ==
    [kind |-> "cron",
     day_of_week |-> IF config.frequency = "daily" THEN "*" ELSE config.frequency,
     hour |-> config.time[1], minute |-> config.time[2]]

\* update_scheduler_job, the backup job: removed if present, then added again
\* when the config enables it; a time that is not "HH:MM" raises ValueError
\* and nothing is added
backup_job_update(js, config, running) ==
    LET removed == IF get_job(js, backup_job_id) THEN remove_job(js, backup_job_id)
                   ELSE js
    IN  IF config.enabled /\ config.time # <<>>
        THEN add_job(removed, [id |-> backup_job_id, trigger |-> BackupTrigger(config)],
                     TRUE, running)
        ELSE removed

\* MUTANT: the else branch of the hardware test left out
wiegand_job_update_Mut(js, hw, running) ==
    IF hw /\ ~get_job(js, wiegand_job_id)
    THEN add_job(js, [id |-> wiegand_job_id, trigger |-> IntervalTrigger], FALSE, running)
    ELSE js
\* update_scheduler_job, the Wiegand job: present exactly while the hardware is
wiegand_job_update(js, hw, running) ==
    IF hw
    THEN IF ~get_job(js, wiegand_job_id)
         THEN add_job(js, [id |-> wiegand_job_id, trigger |-> IntervalTrigger],
                      FALSE, running)
         ELSE js
    ELSE IF get_job(js, wiegand_job_id) THEN remove_job(js, wiegand_job_id) ELSE js

\* MUTANT: the Wiegand job is added without asking whether it is there
update_scheduler_job_Mut(js, config, hw, running) ==
    LET b == backup_job_update(js, config, running)
    IN  IF hw
        THEN add_job(b, [id |-> wiegand_job_id, trigger |-> IntervalTrigger], FALSE, running)
        ELSE wiegand_job_update(b, hw, running)
\* update_scheduler_job(config): the backup job, then the Wiegand job
update_scheduler_job(js, config, hw, running) ==
    wiegand_job_update(backup_job_update(js, config, running), hw, running)

\* the main block: setup_gpio(), then update_scheduler_job(initial config)
MainInit ==
    /\ mainpc = "init"
    /\ \E outcome \in {"ok", "no_daemon", "late_error"} :
          /\ HARDWARE_AVAILABLE' = (outcome = "ok")
          /\ relay' = IF outcome = "no_daemon" THEN relay ELSE 1
          /\ jobs' = update_scheduler_job(jobs, DefaultBackupConfig, outcome = "ok", FALSE)
    /\ mainpc' = "running"
    /\ UNCHANGED <<extVars, decVars, readerVars, queueVars, accessLog, tickVars, callVars>>

\* the reader thread read a card with ID c: wiegand_queue.put(str(cid), block=False)
ReaderEnqueue(c) ==
    /\ mainpc = "running" /\ HARDWARE_AVAILABLE
    /\ cardsLeft > 0
    /\ cardsLeft' = cardsLeft - 1
    /\ wiegand_queue' = QueuePut(wiegand_queue, DecStr(c))
    /\ unfinished_tasks' =
          IF QueueFull(wiegand_queue) THEN unfinished_tasks ELSE unfinished_tasks + 1
    /\ qseq' = QueuePut(qseq, MaxCards - cardsLeft + 1)
    /\ UNCHANGED <<exitVars, schedVars, jobVars, cfgVars, frameVars, perm_unlocked, last_dequeued, tick_first, exc_seq, instVars,
                   decVars, readerVars, hwVars, accessLog, tickVars, callVars>>

-----------------------------------------------------------------------------
(* process_wiegand_queue_task *)

max_per_cycle == 10

\* add_job(..., max_instances=1): the most instances of the job at a time
max_instances == 1

\* MUTANT: the is_active test left out
TickDecision_Mut(kf, now) ==
    IF kf.id = 0
    THEN [granted |-> FALSE, keyfob_id |-> 0,
          reason |-> "Acceso Denegado (Wiegand - Llavero desconocido)"]
    ELSE IF check_schedule(kf, now)
    THEN [granted |-> TRUE, keyfob_id |-> kf.id,
          reason |-> "Acceso Concedido (Wiegand)"]
    ELSE [granted |-> FALSE, keyfob_id |-> kf.id,
          reason |-> "Acceso Denegado (Wiegand - Fuera de horario)"]
\* the arguments of log_access_event chosen for keyfob kf at clock reading now
TickDecision(kf, now) ==
    IF kf.id = 0
    THEN [granted |-> FALSE, keyfob_id |-> 0,
          reason |-> "Acceso Denegado (Wiegand - Llavero desconocido)"]
    ELSE IF ~kf.is_active
    THEN [granted |-> FALSE, keyfob_id |-> kf.id,
          reason |-> "Acceso Denegado (Wiegand - Llavero inactivo)"]
    ELSE IF check_schedule(kf, now)
    THEN [granted |-> TRUE, keyfob_id |-> kf.id,
          reason |-> "Acceso Concedido (Wiegand)"]
    ELSE [granted |-> FALSE, keyfob_id |-> kf.id,
          reason |-> "Acceso Denegado (Wiegand - Fuera de horario)"]

\* TickStart without the executor's instance limit
TickStart_NoLimit ==
    /\ mainpc = "running" /\ get_job(jobs, wiegand_job_id)
    /\ instances' = instances + 1 /\ missed' = FALSE
    /\ tpc' = "loop" /\ processed' = 0 /\ uid' = <<>>
    /\ decision' = NoDecision /\ now_local' = NoTime
    /\ tick_first' = last_dequeued
    /\ UNCHANGED <<exitVars, schedVars, jobVars, cfgVars, frameVars, perm_unlocked,
                   qseq, last_dequeued, exc_seq,
                   decVars, readerVars, hwVars, queueVars, accessLog, callVars>>

\* the scheduler fires the job; max_instances=1 keeps one instance at a time
TickStart ==
    /\ mainpc = "running" /\ get_job(jobs, wiegand_job_id)
    /\ instances < max_instances
    /\ instances' = instances + 1 /\ missed' = FALSE
    /\ tpc' = "loop" /\ processed' = 0 /\ uid' = <<>>
    /\ decision' = NoDecision /\ now_local' = NoTime
    /\ tick_first' = last_dequeued
    /\ UNCHANGED <<exitVars, schedVars, jobVars, cfgVars, frameVars, perm_unlocked,
                   qseq, last_dequeued, exc_seq,
                   decVars, readerVars, hwVars, queueVars, accessLog, callVars>>

\* MUTANT: the loop is left after an item whose processing raised
TickLoop_Mut ==
    /\ tpc = "loop"
    /\ IF wiegand_queue # <<>> /\ processed < max_per_cycle
          /\ (exc_seq = 0 \/ exc_seq # last_dequeued)
       THEN /\ uid' = Head(wiegand_queue)
            /\ wiegand_queue' = Tail(wiegand_queue)
            /\ last_dequeued' = Head(qseq)
            /\ qseq' = Tail(qseq)
            /\ UNCHANGED <<tick_first, exc_seq, instVars>>
            /\ processed' = processed + 1
            /\ tpc' = "lookup"
       ELSE /\ tpc' = "idle"
            /\ instances' = instances - 1
            /\ UNCHANGED <<uid, wiegand_queue, processed, qseq, last_dequeued,
                           tick_first, exc_seq, missed>>
    /\ decision' = NoDecision /\ now_local' = NoTime
    /\ UNCHANGED <<exitVars, schedVars, jobVars, cfgVars, frameVars, perm_unlocked, decVars,
                   readerVars, hwVars, unfinished_tasks, cardsLeft, accessLog, callVars>>
\* MUTANT: the loop runs until the queue is empty
TickLoop_NoLimit ==
    /\ tpc = "loop"
    /\ IF wiegand_queue # <<>>
       THEN /\ uid' = Head(wiegand_queue)
            /\ wiegand_queue' = Tail(wiegand_queue)
            /\ last_dequeued' = Head(qseq)
            /\ qseq' = Tail(qseq)
            /\ UNCHANGED <<tick_first, exc_seq, instVars>>
            /\ processed' = processed + 1
            /\ tpc' = "lookup"
       ELSE /\ tpc' = "idle"
            /\ instances' = instances - 1
            /\ UNCHANGED <<uid, wiegand_queue, processed, qseq, last_dequeued,
                           tick_first, exc_seq, missed>>
    /\ decision' = NoDecision /\ now_local' = NoTime
    /\ UNCHANGED <<exitVars, schedVars, jobVars, cfgVars, frameVars, perm_unlocked, decVars,
                   readerVars, hwVars, unfinished_tasks, cardsLeft, accessLog, callVars>>
\* the while test, then uid = wiegand_queue.get_nowait(); processed += 1
TickLoop ==
    /\ tpc = "loop"
    /\ IF wiegand_queue # <<>> /\ processed < max_per_cycle
       THEN /\ uid' = Head(wiegand_queue)
            /\ wiegand_queue' = Tail(wiegand_queue)
            /\ last_dequeued' = Head(qseq)
            /\ qseq' = Tail(qseq)
            /\ UNCHANGED <<tick_first, exc_seq, instVars>>
            /\ processed' = processed + 1
            /\ tpc' = "lookup"
       ELSE /\ tpc' = "idle"
            /\ instances' = instances - 1
            /\ UNCHANGED <<uid, wiegand_queue, processed, qseq, last_dequeued,
                           tick_first, exc_seq, missed>>
    /\ decision' = NoDecision /\ now_local' = NoTime
    /\ UNCHANGED <<exitVars, schedVars, jobVars, cfgVars, frameVars, perm_unlocked, decVars,
                   readerVars, hwVars, unfinished_tasks, cardsLeft, accessLog, callVars>>

\* TickDecide with no handler for an exception other than OperationalError:
\* the exception leaves the task
TickDecide_Escapes ==
    /\ tpc = "lookup"
    /\ \E outcome \in {"row", "OperationalError", "Exception"} :
       \E now \in ClockReadings, saved \in BOOLEAN :
          CASE outcome = "OperationalError" ->
                 /\ tpc' = "aborted"
                 /\ UNCHANGED <<exc_seq, decision, now_local, accessLog, unfinished_tasks, callVars>>
            [] outcome = "Exception" ->
                 /\ tpc' = "raised"
                 /\ exc_seq' = last_dequeued
                 /\ unfinished_tasks' = unfinished_tasks
                 /\ UNCHANGED <<decision, now_local, accessLog, callVars>>
            [] OTHER ->
                 LET kf  == KeyfobFirst(uid)
                     d   == TickDecision(kf, now)
                     \* datetime.now() is read only inside check_schedule
                     clk == IF kf.id # 0 /\ kf.is_active /\ kf.activation_schedule_enabled
                            THEN now ELSE NoTime
                 IN  /\ decision' = d
                     /\ now_local' = clk
                     /\ accessLog' =
                           IF saved
                           THEN Append(accessLog,
                                       [uid |-> uid, keyfob_id |-> d.keyfob_id,
                                        granted |-> d.granted, reason |-> d.reason])
                           ELSE accessLog
                     /\ IF d.granted
                        THEN /\ tpc' = "relay"
                             /\ rop' = [rop EXCEPT !["tick"] = "open"]
                             /\ rpc' = [rpc EXCEPT !["tick"] = "start"]
                        ELSE /\ tpc' = "task_done"
                             /\ UNCHANGED <<rop, rpc>>
                     /\ UNCHANGED <<exc_seq, unfinished_tasks, conn, res, secErr>>
    /\ perm_unlocked' = (perm_unlocked /\ rop' = rop)
    /\ UNCHANGED <<exitVars, schedVars, jobVars, cfgVars, qseq, last_dequeued, tick_first, instVars, frameVars, decVars, readerVars, hwVars,
                   wiegand_queue, cardsLeft, uid, processed>>

\* the Keyfob query, the decision and log_access_event; the query can raise
\* OperationalError (break, no task_done) or another exception (task_done,
\* next item); log_access_event swallows a failed commit
TickDecide ==
    /\ tpc = "lookup"
    /\ \E outcome \in {"row", "OperationalError", "Exception"} :
       \E now \in ClockReadings, saved \in BOOLEAN :
          CASE outcome = "OperationalError" ->
                 /\ tpc' = "aborted"
                 /\ UNCHANGED <<exc_seq, decision, now_local, accessLog, unfinished_tasks, callVars>>
            [] outcome = "Exception" ->
                 /\ tpc' = "loop"
                 /\ exc_seq' = last_dequeued
                 /\ unfinished_tasks' = TaskDone(unfinished_tasks)
                 /\ UNCHANGED <<decision, now_local, accessLog, callVars>>
            [] OTHER ->
                 LET kf  == KeyfobFirst(uid)
                     d   == TickDecision(kf, now)
                     \* datetime.now() is read only inside check_schedule
                     clk == IF kf.id # 0 /\ kf.is_active /\ kf.activation_schedule_enabled
                            THEN now ELSE NoTime
                 IN  /\ decision' = d
                     /\ now_local' = clk
                     /\ accessLog' =
                           IF saved
                           THEN Append(accessLog,
                                       [uid |-> uid, keyfob_id |-> d.keyfob_id,
                                        granted |-> d.granted, reason |-> d.reason])
                           ELSE accessLog
                     /\ IF d.granted
                        THEN /\ tpc' = "relay"
                             /\ rop' = [rop EXCEPT !["tick"] = "open"]
                             /\ rpc' = [rpc EXCEPT !["tick"] = "start"]
                        ELSE /\ tpc' = "task_done"
                             /\ UNCHANGED <<rop, rpc>>
                     /\ UNCHANGED <<exc_seq, unfinished_tasks, conn, res, secErr>>
    /\ perm_unlocked' = (perm_unlocked /\ rop' = rop)
    /\ UNCHANGED <<exitVars, schedVars, jobVars, cfgVars, qseq, last_dequeued, tick_first, instVars, frameVars, decVars, readerVars, hwVars,
                   wiegand_queue, cardsLeft, uid, processed>>

\* TickRelayReturn of a task that looks at the result: a failed actuation
\* turns the last record into a denial
TickRelayReturn_Revises ==
    /\ tpc = "relay" /\ rpc["tick"] = "ret"
    /\ accessLog' = IF ~res["tick"] /\ accessLog # <<>>
                    THEN [accessLog EXCEPT ![Len(accessLog)].granted = FALSE]
                    ELSE accessLog
    /\ \E raised \in {FALSE, conn["tick"]} :
          IF raised
          THEN /\ tpc' = "loop"
               /\ exc_seq' = last_dequeued
               /\ unfinished_tasks' = TaskDone(unfinished_tasks)
          ELSE /\ tpc' = "task_done"
               /\ UNCHANGED <<exc_seq, unfinished_tasks>>
    /\ rop' = [rop EXCEPT !["tick"] = "none"]
    /\ rpc' = [rpc EXCEPT !["tick"] = "none"]
    /\ conn' = [conn EXCEPT !["tick"] = FALSE]
    /\ res' = [res EXCEPT !["tick"] = FALSE]
    /\ secErr' = [secErr EXCEPT !["tick"] = FALSE]
    /\ FrameReset("tick")
    /\ UNCHANGED <<exitVars, schedVars, jobVars, cfgVars, perm_unlocked,
                   qseq, last_dequeued, tick_first, instVars,
                   decVars, readerVars, hwVars, wiegand_queue, cardsLeft,
                   uid, processed, decision, now_local>>

\* activate_relay() returned to the tick; its result is not looked at.  With a
\* connected handle the finally block calls pi_relay.stop(), and an exception
\* of stop() reaches the tick's `except Exception`: task_done, next item
TickRelayReturn ==
    /\ tpc = "relay" /\ rpc["tick"] = "ret"
    /\ \E raised \in {FALSE, conn["tick"]} :
          IF raised
          THEN /\ tpc' = "loop"
               /\ exc_seq' = last_dequeued
               /\ unfinished_tasks' = TaskDone(unfinished_tasks)
          ELSE /\ tpc' = "task_done"
               /\ UNCHANGED <<exc_seq, unfinished_tasks>>
    /\ rop' = [rop EXCEPT !["tick"] = "none"]
    /\ rpc' = [rpc EXCEPT !["tick"] = "none"]
    /\ conn' = [conn EXCEPT !["tick"] = FALSE]
    /\ res' = [res EXCEPT !["tick"] = FALSE]
    /\ secErr' = [secErr EXCEPT !["tick"] = FALSE]
    /\ FrameReset("tick")
    /\ UNCHANGED <<exitVars, schedVars, jobVars, cfgVars, perm_unlocked,
                   qseq, last_dequeued, tick_first, instVars,
                   decVars, readerVars, hwVars, wiegand_queue, cardsLeft, accessLog,
                   uid, processed, decision, now_local>>

\* wiegand_queue.task_done()
TickTaskDone ==
    /\ tpc = "task_done"
    /\ unfinished_tasks' = TaskDone(unfinished_tasks)
    /\ tpc' = "loop"
    /\ UNCHANGED <<extVars, decVars, readerVars, hwVars, wiegand_queue, cardsLeft, accessLog,
                   uid, processed, decision, now_local, callVars>>

\* TickAbortReturn of a task that retries: the item goes back to the head of
\* the queue before the task returns
TickAbortReturn_Requeue ==
    /\ tpc = "aborted"
    /\ tpc' = "idle"
    /\ instances' = instances - 1
    /\ wiegand_queue' = <<uid>> \o wiegand_queue
    /\ qseq' = <<last_dequeued>> \o qseq
    /\ UNCHANGED <<exitVars, schedVars, jobVars, cfgVars, frameVars, perm_unlocked,
                   last_dequeued, tick_first, exc_seq, missed,
                   decVars, readerVars, hwVars, unfinished_tasks, cardsLeft, accessLog,
                   uid, processed, decision, now_local, callVars>>

\* the break of the OperationalError handler: the task returns
TickAbortReturn ==
    /\ tpc = "aborted"
    /\ tpc' = "idle"
    /\ instances' = instances - 1
    /\ UNCHANGED <<exitVars, schedVars, jobVars, cfgVars, frameVars, perm_unlocked,
                   qseq, last_dequeued, tick_first, exc_seq, missed,
                   decVars, readerVars, hwVars, queueVars, accessLog,
                   uid, processed, decision, now_local, callVars>>

\* the scheduler fires the job while max_instances instances are running:
\* the run is skipped with a warning
TickFireMissed ==
    /\ mainpc = "running" /\ get_job(jobs, wiegand_job_id)
    /\ instances >= max_instances
    /\ missed' = TRUE
    /\ UNCHANGED <<exitVars, schedVars, jobVars, cfgVars, frameVars, perm_unlocked,
                   qseq, last_dequeued, tick_first, exc_seq, instances,
                   decVars, readerVars, engineVars>>

-----------------------------------------------------------------------------
(* Door control: activate_relay, lock_door, unlock_door_permanently.        *)
(* pigpio.pi() may or may not reach the daemon; a pi.write either sets the  *)
(* pin or raises and leaves the pin as it was.                              *)

DEFAULT_OPENING_TIME_SECONDS == 5

PyMin(a, b) == IF a < b THEN a ELSE b
PyMax(a, b) == IF a > b THEN a ELSE b

\* get_opening_time(): int() of the stored value, limited to 1..60; the
\* default when int() raises ValueError or TypeError
get_opening_time(stored) ==
    IF stored.kind = "int" THEN PyMax(1, PyMin(60, stored.v))
    ELSE IF stored.kind = "absent"
    THEN PyMax(1, PyMin(60, DEFAULT_OPENING_TIME_SECONDS))
    ELSE DEFAULT_OPENING_TIME_SECONDS

\* int(inf) raises OverflowError, which is neither of the two exceptions
\* get_opening_time catches: the call raises instead of returning
OpeningTimeRaises(stored) == stored.kind = "inf"

\* activation_time = duration if duration is not None else get_opening_time()
ActivationTime(d, stored) == IF d # None THEN d[1] ELSE get_opening_time(stored)

Returned(c, ok) ==
    /\ rpc' = [rpc EXCEPT ![c] = "ret"]
    /\ res' = [res EXCEPT ![c] = ok]

\* activate_relay up to the unlock write: the HARDWARE_AVAILABLE test,
\* pigpio.pi(), pi_relay.write(RELAY_PIN, 0)
ActivateConnect(c) ==
    /\ rop[c] = "open" /\ rpc[c] = "start"
    /\ IF ~HARDWARE_AVAILABLE
       THEN /\ Returned(c, FALSE)
            /\ UNCHANGED <<relay, conn, activation_time, wfail>>
       ELSE \E connected \in BOOLEAN, wrote \in BOOLEAN :
               /\ activation_time' =
                     [activation_time EXCEPT
                        ![c] = ActivationTime(duration[c], settings_opening_time)]
               /\ conn' = [conn EXCEPT ![c] = connected]
               /\ res' = res
               /\ wfail' = [wfail EXCEPT ![c] = connected /\ ~wrote]
               /\ IF connected /\ wrote
                  THEN /\ relay' = 0
                       /\ rpc' = [rpc EXCEPT ![c] = "sleep"]
                  ELSE /\ relay' = relay
                       /\ rpc' = [rpc EXCEPT ![c] = "except"]
    /\ UNCHANGED <<exitVars, schedVars, jobVars, cfgVars, fifoVars, perm_unlocked, perm_since, duration, reassert, decVars, readerVars,
                   mainpc, HARDWARE_AVAILABLE, jobs, queueVars, accessLog,
                   tickVars, rop, secErr>>

\* time.sleep(activation_time) ends (or raises), then pi_relay.write(RELAY_PIN, 1)
ActivateRelock(c) ==
    /\ rop[c] = "open" /\ rpc[c] = "sleep"
    /\ \E outcome \in {"relocked", "sleep_raised", "write_raised"} :
          \* time.sleep raises ValueError for a negative length
          /\ activation_time[c] < 0 => outcome = "sleep_raised"
          /\ wfail' = [wfail EXCEPT ![c] = (outcome = "write_raised")]
          /\ perm_since' = IF perm_since # None /\ outcome = "relocked"
                           THEN Some(FALSE) ELSE perm_since
          /\ IF outcome = "relocked"
             THEN /\ relay' = 1
                  /\ Returned(c, TRUE)
             ELSE /\ relay' = relay
                  /\ rpc' = [rpc EXCEPT ![c] = "except"]
                  /\ res' = res
    /\ UNCHANGED <<exitVars, schedVars, jobVars, cfgVars, fifoVars, perm_unlocked, duration, activation_time, reassert,
                   decVars, readerVars, mainpc, HARDWARE_AVAILABLE, jobs, queueVars,
                   accessLog, tickVars, rop, conn, secErr>>

\* MUTANT: the handler returns failure without re-asserting the locked level
ActivateExcept_Mut(c) ==
    /\ rop[c] = "open" /\ rpc[c] = "except"
    /\ relay' = relay
    /\ secErr' = secErr
    /\ reassert' = reassert
    /\ Returned(c, FALSE)
    /\ UNCHANGED <<exitVars, schedVars, jobVars, cfgVars, fifoVars, perm_unlocked, perm_since, duration, activation_time, wfail,
                   decVars, readerVars, mainpc, HARDWARE_AVAILABLE, jobs, queueVars,
                   accessLog, tickVars, rop, conn>>
\* the except handler of activate_relay: with a connected handle, one more
\* pi_relay.write(RELAY_PIN, 1), whose own failure is only logged
ActivateExcept(c) ==
    /\ rop[c] = "open" /\ rpc[c] = "except"
    /\ IF conn[c]
       THEN \E wrote \in BOOLEAN :
               /\ relay' = IF wrote THEN 1 ELSE relay
               /\ secErr' = [secErr EXCEPT ![c] = ~wrote]
               /\ reassert' = [reassert EXCEPT ![c] = TRUE]
       ELSE UNCHANGED <<relay, secErr, reassert>>
    /\ Returned(c, FALSE)
    /\ UNCHANGED <<exitVars, schedVars, jobVars, cfgVars, fifoVars, perm_unlocked, perm_since, duration, activation_time, wfail,
                   decVars, readerVars, mainpc, HARDWARE_AVAILABLE, jobs, queueVars,
                   accessLog, tickVars, rop, conn>>

\* MUTANT: the HARDWARE_AVAILABLE test left out
SetDoor_NoFlag(c, op, level) ==
    /\ rop[c] = op /\ rpc[c] = "start"
    /\ \E connected \in BOOLEAN, wrote \in BOOLEAN :
          /\ conn' = [conn EXCEPT ![c] = connected]
          /\ relay' = IF connected /\ wrote THEN level ELSE relay
          /\ wfail' = [wfail EXCEPT ![c] = connected /\ ~wrote]
          /\ Returned(c, connected /\ wrote)
    /\ perm_unlocked' = (perm_unlocked \/ (op = "unlock" /\ res'[c]))
    /\ perm_since' = IF perm_since # None /\ res'[c]
                     THEN Some(op = "unlock") ELSE perm_since
    /\ UNCHANGED <<exitVars, schedVars, jobVars, cfgVars, fifoVars, duration, activation_time, reassert,
                   decVars, readerVars, mainpc, HARDWARE_AVAILABLE, jobs, queueVars,
                   accessLog, tickVars, rop, secErr>>
\* lock_door (level 1) and unlock_door_permanently (level 0): one write, and
\* on any exception the failure is returned with nothing written again
SetDoor(c, op, level) ==
    /\ rop[c] = op /\ rpc[c] = "start"
    /\ IF ~HARDWARE_AVAILABLE
       THEN /\ Returned(c, FALSE)
            /\ UNCHANGED <<relay, conn, wfail>>
       ELSE \E connected \in BOOLEAN, wrote \in BOOLEAN :
               /\ conn' = [conn EXCEPT ![c] = connected]
               /\ relay' = IF connected /\ wrote THEN level ELSE relay
               /\ wfail' = [wfail EXCEPT ![c] = connected /\ ~wrote]
               /\ Returned(c, connected /\ wrote)
    /\ perm_unlocked' = (perm_unlocked \/ (op = "unlock" /\ res'[c]))
    /\ perm_since' = IF perm_since # None /\ res'[c]
                     THEN Some(op = "unlock") ELSE perm_since
    /\ UNCHANGED <<exitVars, schedVars, jobVars, cfgVars, fifoVars, duration, activation_time, reassert,
                   decVars, readerVars, mainpc, HARDWARE_AVAILABLE, jobs, queueVars,
                   accessLog, tickVars, rop, secErr>>

lock_door(c) == SetDoor(c, "lock", 1)
unlock_door_permanently(c) == SetDoor(c, "unlock", 0)

-----------------------------------------------------------------------------
(* API routes /api/door/open, /api/door/lock, /api/door/unlock *)

\* a request arrives; without hardware the route answers 503 at once
ApiDoorRequest(op) ==
    /\ mainpc = "running"
    /\ rpc["api"] = "none"
    /\ IF HARDWARE_AVAILABLE
       THEN /\ rop' = [rop EXCEPT !["api"] = op]
            /\ rpc' = [rpc EXCEPT !["api"] = "start"]
       ELSE UNCHANGED <<rop, rpc>>
    /\ perm_unlocked' = (perm_unlocked /\ (rop' = rop \/ op = "unlock"))
    /\ UNCHANGED <<exitVars, schedVars, jobVars, cfgVars, fifoVars, frameVars, decVars, readerVars, hwVars,
                   queueVars, accessLog, tickVars, conn, res, secErr>>

\* the route logs the outcome and answers 200 or 500
ApiDoorRespond ==
    /\ rpc["api"] = "ret"
    /\ rop' = [rop EXCEPT !["api"] = "none"]
    /\ rpc' = [rpc EXCEPT !["api"] = "none"]
    /\ conn' = [conn EXCEPT !["api"] = FALSE]
    /\ res' = [res EXCEPT !["api"] = FALSE]
    /\ secErr' = [secErr EXCEPT !["api"] = FALSE]
    /\ FrameReset("api")
    /\ UNCHANGED <<exitVars, schedVars, jobVars, cfgVars, fifoVars, perm_unlocked, decVars, readerVars, hwVars, queueVars, accessLog, tickVars>>

-----------------------------------------------------------------------------
(* The engine: main block, reader output, tick, door calls, API requests *)

EngineNext ==
    \/ MainInit
    \/ \E c \in CardIds : ReaderEnqueue(c)
    \/ TickStart
    \/ TickLoop
    \/ TickDecide
    \/ TickRelayReturn
    \/ TickTaskDone
    \/ TickAbortReturn
    \/ \E c \in Ctx : ActivateConnect(c)
    \/ \E c \in Ctx : ActivateRelock(c)
    \/ \E c \in Ctx : ActivateExcept(c)
    \/ lock_door("api")
    \/ unlock_door_permanently("api")
    \/ \E op \in {"open", "lock", "unlock"} : ApiDoorRequest(op)
    \/ ApiDoorRespond

SpecEngine == EngineInit /\ [][EngineNext]_vars

-----------------------------------------------------------------------------
(* Engine claims *)

\* context c leaves activate_relay in this step
ActivateReturns(c) == rop[c] = "open" /\ rpc[c] # "ret" /\ rpc'[c] = "ret"

C2_ActuateOnlyAuthorized ==
    LET kf == KeyfobFirst(uid)
        authorized == kf.id # 0 /\ kf.is_active /\ check_schedule(kf, now_local)
    IN  /\ (tpc = "relay" \/ rop["tick"] # "none") =>
               /\ authorized
               /\ tpc = "relay" /\ rop["tick"] = "open"
               /\ decision.granted
        /\ (tpc = "task_done" /\ ~authorized) =>
               /\ ~decision.granted
               /\ rop["tick"] = "none"
               /\ decision.reason =
                     IF kf.id = 0
                     THEN "Acceso Denegado (Wiegand - Llavero desconocido)"
                     ELSE IF ~kf.is_active
                     THEN "Acceso Denegado (Wiegand - Llavero inactivo)"
                     ELSE "Acceso Denegado (Wiegand - Fuera de horario)"

\* an inactive keyfob was denied without a door call
C2_Witness ==
    /\ tpc = "task_done" /\ uid = <<"1", "1">>
    /\ ~decision.granted /\ decision.keyfob_id = 2
    /\ rop["tick"] = "none" /\ relay = 1

\* C3 (as claimed): after an OperationalError the credential being processed
\* is not consumed: it is still in the queue for a later tick.
C3_FailedItemStillQueued ==
    tpc = "aborted" => \E i \in 1..Len(wiegand_queue) : wiegand_queue[i] = uid

\* C4 (as claimed): the queue has a capacity, the maxsize it was built with,
\* and never holds more items than that: an enqueue at capacity is dropped.
C4_QueueWithinCapacity ==
    Len(wiegand_queue) <= wiegand_queue_maxsize

\* C5 (as claimed): while a momentary open is between its unlock write and
\* its re-lock write, no other door call writes the relay.
C5_NoWriteDuringOpen ==
    [][\A c \in Ctx :
          (rop[c] = "open" /\ rpc[c] = "sleep" /\ rpc'[c] = "sleep") => relay' = relay]_vars

\* C20: credentials are decided in arrival order: the items in the queue
\* stand in the order the reader thread enqueued them, every one of them
\* arrived after the item dequeued last, and a dequeue takes the oldest.
C20_ArrivalOrder ==
    /\ [](/\ Len(qseq) = Len(wiegand_queue)
          /\ \A i, j \in 1..Len(qseq) : i < j => qseq[i] < qseq[j]
          /\ \A i \in 1..Len(qseq) : last_dequeued < qseq[i])
    /\ [][Len(wiegand_queue') < Len(wiegand_queue) =>
             /\ uid' = wiegand_queue[1]
             /\ last_dequeued' = qseq[1]
             /\ last_dequeued' > last_dequeued]_vars

\* the second card of two waiting ones is being decided, after the first
C20_Witness ==
    /\ tpc = "lookup" /\ processed = 2 /\ last_dequeued = 2
    /\ uid = <<"1", "2">>
    /\ \E i \in 1..Len(accessLog) : accessLog[i].uid = <<"1", "0">>

-----------------------------------------------------------------------------
(* Wiegand capture: _wiegand_pulse_callback and the inner loop of          *)
(* run_wiegand_reader_thread, two threads over unguarded globals           *)

WIEGAND_PIN_D0 == 7
WIEGAND_PIN_D1 == 8
WIEGAND_TIMEOUT_MS == 50

(* Bounds of the model *)

\* the clock advances in steps of ClockStepUs microseconds, MaxAdvances times
ClockStepUs == 30000
MaxAdvances == 2

\* the largest integer the checker represents, 2^31 - 1
IntMax == (Pow2(30) - 1) * 2 + 1

\* pigpio.tickDiff(t1, t2) on the 32-bit tick counter: t2 - t1, plus 2^32 when
\* negative. Ticks here stay below 2^31, so a wrapped difference lies above
\* 2^31; it is only ever compared with the timeout and is held at IntMax.
tickDiff(t1, t2) == IF t2 - t1 < 0 THEN IntMax ELSE t2 - t1

\* the bit streams a presentation puts on the two data lines
CardFrame == EncodeFrame(1, 2, 1, 0)
WireInputs == {CardFrame, <<1, 0, 1>>}

\* a jammed line: JamLength pulses are in the collector, all stamped at tick 0,
\* and four more are on their way
JamLength == WIEGAND_EXPECTED_BITS + 6
JamBits == [i \in 1..JamLength |-> i % 2]
JamWire == <<1, 0, 1, 1>>

\* the pulses of a presentation that are still to come, at most
MaxPulses == 4

\* what the reader thread finds: a presentation of which all but the last
\* MaxPulses pulses are in the collector, stamped at tick 0, or the jammed line
ReaderInputs ==
    {[collector |-> SubSeq(w, 1, PyMax(0, Len(w) - MaxPulses)),
      wire |-> SubSeq(w, PyMax(0, Len(w) - MaxPulses) + 1, Len(w))] : w \in WireInputs}
        \cup {[collector |-> JamBits, wire |-> JamWire]}

\* the thread is connected, both callbacks are registered and
\* _last_pulse_tick = pi.get_current_tick() has run
ReaderInit ==
    /\ src = NoSrc /\ dpc = "off" /\ bits = <<>> /\ cid = NoId
    /\ EngineOff /\ ExtOff
    /\ \E input \in ReaderInputs :
          /\ collector = input.collector
          /\ wire = input.wire
          /\ nAppended = Len(input.collector)
    /\ last_pulse_tick = 0 /\ clock = 0
    /\ cbpc = "idle" /\ ev = [gpio |-> 0, level |-> 0, tick |-> 0]
    /\ wpc = "poll" /\ tick_now = 0
    /\ nFramed = 0
    /\ last_edge_tick = 0 /\ nIgnored = 0 /\ nSnap26 = 0
    /\ ConnOff

\* time passes
ClockAdvance ==
    /\ clock < ClockStepUs * MaxAdvances
    /\ clock' = clock + ClockStepUs
    /\ UNCHANGED <<extVars, decVars, engineVars, collector, last_pulse_tick, wire, cbpc, ev,
                   wpc, tick_now, nAppended, nFramed, readerHist>>

\* a falling edge on D0 (bit 0) or D1 (bit 1): pigpio's callback thread calls
\* _wiegand_pulse_callback(gpio, 0, tick), one call at a time
PulseEdge ==
    /\ cbpc = "idle" /\ wire # <<>>
    /\ ev' = [gpio |-> IF Head(wire) = 0 THEN WIEGAND_PIN_D0 ELSE WIEGAND_PIN_D1,
              level |-> 0, tick |-> clock]
    /\ wire' = Tail(wire)
    /\ cbpc' = "append"
    /\ UNCHANGED <<extVars, decVars, engineVars, collector, last_pulse_tick, clock,
                   wpc, tick_now, nAppended, nFramed, readerHist>>

\* MUTANT: the guard lets a pulse in at WIEGAND_EXPECTED_BITS + 8 bits
CallbackAppend_Mut ==
    /\ cbpc = "append"
    /\ IF ev.level = 0
          /\ ~(Len(collector) > WIEGAND_EXPECTED_BITS + 8)
          /\ ev.gpio \in {WIEGAND_PIN_D0, WIEGAND_PIN_D1}
       THEN /\ collector' = Append(collector, IF ev.gpio = WIEGAND_PIN_D0 THEN 0 ELSE 1)
            /\ nAppended' = nAppended + 1
            /\ last_edge_tick' = ev.tick
            /\ cbpc' = "stamp"
            /\ nIgnored' = nIgnored
       ELSE /\ cbpc' = "idle"
            /\ nIgnored' = nIgnored + 1
            /\ UNCHANGED <<collector, nAppended, last_edge_tick>>
    /\ UNCHANGED <<extVars, decVars, engineVars, last_pulse_tick, clock, wire, ev,
                   wpc, tick_now, nFramed, nSnap26, connVars>>
\* the callback up to the append: level test, overflow guard, append
CallbackAppend ==
    /\ cbpc = "append"
    /\ IF ev.level = 0
          /\ ~(Len(collector) >= WIEGAND_EXPECTED_BITS + 8)
          /\ ev.gpio \in {WIEGAND_PIN_D0, WIEGAND_PIN_D1}
       THEN /\ collector' = Append(collector, IF ev.gpio = WIEGAND_PIN_D0 THEN 0 ELSE 1)
            /\ nAppended' = nAppended + 1
            /\ last_edge_tick' = ev.tick
            /\ cbpc' = "stamp"
            /\ nIgnored' = nIgnored
       ELSE /\ cbpc' = "idle"
            /\ nIgnored' = nIgnored + 1
            /\ UNCHANGED <<collector, nAppended, last_edge_tick>>
    /\ UNCHANGED <<extVars, decVars, engineVars, last_pulse_tick, clock, wire, ev,
                   wpc, tick_now, nFramed, nSnap26, connVars>>

\* _last_pulse_tick = tick
CallbackStamp ==
    /\ cbpc = "stamp"
    /\ last_pulse_tick' = ev.tick
    /\ cbpc' = "idle"
    /\ UNCHANGED <<extVars, decVars, engineVars, collector, clock, wire, ev,
                   wpc, tick_now, nAppended, nFramed, readerHist>>

\* tick_now = pi.get_current_tick()
ReaderPoll ==
    /\ wpc = "poll"
    /\ tick_now' = clock
    /\ wpc' = "check"
    /\ UNCHANGED <<extVars, decVars, engineVars, collector, last_pulse_tick, clock, wire,
                   cbpc, ev, nAppended, nFramed, readerHist>>

\* the two tests: a non-empty collector, and more than the timeout since
\* _last_pulse_tick; otherwise time.sleep(0.01) and the next round
ReaderCheck ==
    /\ wpc = "check"
    /\ wpc' = IF Len(collector) > 0
                 /\ tickDiff(last_pulse_tick, tick_now) > WIEGAND_TIMEOUT_MS * 1000
              THEN "copy" ELSE "poll"
    /\ UNCHANGED <<extVars, decVars, engineVars, collector, last_pulse_tick, clock, wire,
                   cbpc, ev, tick_now, nAppended, nFramed, readerHist>>

\* bits = list(_wiegand_bits_collector)
ReaderCopy ==
    /\ wpc = "copy"
    /\ bits' = collector
    /\ nFramed' = nFramed + Len(collector)
    /\ nSnap26' = IF Len(collector) = WIEGAND_EXPECTED_BITS THEN nSnap26 + 1 ELSE nSnap26
    /\ wpc' = "reset"
    /\ UNCHANGED <<extVars, src, dpc, cid, engineVars, collector, last_pulse_tick, clock, wire,
                   cbpc, ev, tick_now, nAppended, last_edge_tick, nIgnored, connVars>>

\* _wiegand_bits_collector = []
ReaderReset ==
    /\ wpc = "reset"
    /\ collector' = <<>>
    /\ wpc' = "process"
    /\ UNCHANGED <<extVars, decVars, engineVars, last_pulse_tick, clock, wire,
                   cbpc, ev, tick_now, nAppended, nFramed, readerHist>>

\* cid = _wiegand_process_data(bits), and wiegand_queue.put(str(cid), block=False)
\* when it is not None
ReaderProcess ==
    /\ wpc = "process"
    /\ cid' = wiegand_process_data(bits)
    /\ IF ~cid'.none
       THEN /\ wiegand_queue' = QueuePut(wiegand_queue, DecStr(cid'.id))
            /\ unfinished_tasks' =
                  IF QueueFull(wiegand_queue) THEN unfinished_tasks
                  ELSE unfinished_tasks + 1
            /\ qseq' = QueuePut(qseq, last_dequeued + Len(qseq) + 1)
       ELSE UNCHANGED <<wiegand_queue, unfinished_tasks, qseq>>
    /\ wpc' = "stamp"
    /\ UNCHANGED <<exitVars, schedVars, jobVars, cfgVars, frameVars, perm_unlocked, last_dequeued, tick_first, exc_seq, instVars, src, dpc, bits, hwVars, cardsLeft, accessLog, tickVars, callVars,
                   collector, last_pulse_tick, clock, wire, cbpc, ev, tick_now,
                   nAppended, nFramed, readerHist>>

\* _last_pulse_tick = tick_now, then time.sleep(0.01)
ReaderStamp ==
    /\ wpc = "stamp"
    /\ last_pulse_tick' = tick_now
    /\ wpc' = "poll"
    /\ UNCHANGED <<extVars, decVars, engineVars, collector, clock, wire, cbpc, ev,
                   tick_now, nAppended, nFramed, readerHist>>

ReaderNext ==
    \/ ClockAdvance
    \/ PulseEdge
    \/ CallbackAppend
    \/ CallbackStamp
    \/ ReaderPoll
    \/ ReaderCheck
    \/ ReaderCopy
    \/ ReaderReset
    \/ ReaderProcess
    \/ ReaderStamp

SpecReader == ReaderInit /\ [][ReaderNext]_vars

-----------------------------------------------------------------------------
(* Capture claims *)

\* C6 (as claimed): under every interleaving of the callback with the
\* snapshot-and-clear, every appended bit is in exactly one snapshot: outside
\* the copy-then-reset pair, the bits appended so far are those copied into
\* snapshots plus those still in the collector.
C6_NoBitLostOrDuplicated ==
    wpc # "reset" => nAppended = nFramed + Len(collector)

-----------------------------------------------------------------------------
(* check_schedule and the tick's decision as functions of one Keyfob row    *)
(* and one reading of the clock                                            *)

\* stored activation_days, as the parts between the commas ("" or None: <<>>)
DayLists ==
    {<<>>, << <<"m", "o", "n">> >>, << <<"M", "o", "n">> >>, << <<"t", "u", "e">> >>,
     << <<"m", "o", "n">>, <<"t", "u", "e">> >>}

\* stored activation_start_time / activation_end_time
TimeInputs == {None, T(0, 0), T(6, 0), T(8, 0), T(18, 0), T(22, 0)}

KeyfobInputs ==
    {[id |-> 1, uid |-> <<"1", "0">>, is_active |-> a,
      activation_schedule_enabled |-> en, activation_days |-> days,
      activation_start_time |-> st, activation_end_time |-> et] :
        a \in BOOLEAN, en \in BOOLEAN, days \in DayLists,
        st \in TimeInputs, et \in TimeInputs}

\* now_local.strftime('%a').lower() and now_local.time() of the readings
ScheduleWeekdays == {<<"m", "o", "n">>, <<"t", "u", "e">>, <<"w", "e", "d">>}
ScheduleMinutes ==
    {0, 5 * 60 + 59, 6 * 60, 7 * 60 + 59, 8 * 60, 9 * 60, 12 * 60, 17 * 60 + 59,
     18 * 60, 19 * 60, 21 * 60 + 59, 22 * 60, 23 * 60 + 30, 23 * 60 + 59}
ScheduleReadings ==
    {[weekday |-> d, minute |-> m] : d \in ScheduleWeekdays, m \in ScheduleMinutes}

ScheduleInit ==
    /\ DecoderOff /\ EngineOff /\ ReaderOff
    /\ keyfob \in KeyfobInputs
    /\ sched_now = NoTime /\ spc = "call"
    /\ sched_ret = [ok |-> FALSE, decision |-> NoDecision]
    /\ SchedulerOff
    /\ settings_opening_time = Absent /\ SettingsOff /\ FramesIdle /\ ExitOff

\* the tick found the row `keyfob`; the clock reads `now` while it decides
EvaluateSchedule ==
    /\ spc = "call"
    /\ \E now \in ScheduleReadings :
          /\ sched_now' = now
          /\ sched_ret' = [ok |-> check_schedule(keyfob, now),
                           decision |-> TickDecision(keyfob, now)]
    /\ spc' = "done"
    /\ UNCHANGED <<exitVars, decVars, engineVars, readerVars, jobVars, cfgVars, frameVars,
                   perm_unlocked, fifoVars, keyfob>>

ScheduleNext == EvaluateSchedule

SpecSchedule == ScheduleInit /\ [][ScheduleNext]_vars

-----------------------------------------------------------------------------
(* Schedule claims *)

\* the allowed-day set of a row: its stored day names, lower-cased
AllowedDaySet(kf) ==
    {LowerStr(kf.activation_days[i]) : i \in 1..Len(kf.activation_days)}

\* C11: an active record with schedule-enabled false is granted at every
\* weekday and time of day, whatever days and start/end times it stores.
C11_DisabledScheduleGrants ==
    (spc = "done" /\ keyfob.is_active /\ ~keyfob.activation_schedule_enabled) =>
        /\ sched_ret.ok
        /\ sched_ret.decision.granted
        /\ sched_ret.decision.reason = "Acceso Concedido (Wiegand)"

\* a disabled schedule storing Tuesday 22:00-06:00, granted on Monday at noon
C11_Witness ==
    /\ spc = "done" /\ keyfob.is_active /\ ~keyfob.activation_schedule_enabled
    /\ keyfob.activation_days = << <<"t", "u", "e">> >>
    /\ keyfob.activation_start_time = T(22, 0) /\ keyfob.activation_end_time = T(6, 0)
    /\ sched_now = [weekday |-> <<"m", "o", "n">>, minute |-> 12 * 60]
    /\ sched_ret.decision.granted

\* C12: for a schedule-enabled record with start and end set and start <= end,
\* check_schedule passes exactly when the weekday is in the allowed-day set
\* and start <= now < end: never at now = end, with an empty day set or with
\* start = end.
C12_SameDayWindow ==
    (/\ spc = "done" /\ keyfob.activation_schedule_enabled
     /\ keyfob.activation_start_time # None /\ keyfob.activation_end_time # None
     /\ keyfob.activation_start_time[1] <= keyfob.activation_end_time[1]) =>
        LET start == keyfob.activation_start_time[1]
            end   == keyfob.activation_end_time[1]
        IN  /\ sched_ret.ok <=>
                 /\ sched_now.weekday \in AllowedDaySet(keyfob)
                 /\ start <= sched_now.minute /\ sched_now.minute < end
            /\ sched_now.minute = end => ~sched_ret.ok
            /\ AllowedDaySet(keyfob) = {} => ~sched_ret.ok
            /\ start = end => ~sched_ret.ok

\* Monday 08:00-18:00, evaluated on Monday at 18:00 sharp: denied
C12_Witness ==
    /\ spc = "done" /\ keyfob.activation_schedule_enabled
    /\ keyfob.activation_days = << <<"M", "o", "n">> >>
    /\ keyfob.activation_start_time = T(8, 0) /\ keyfob.activation_end_time = T(18, 0)
    /\ sched_now = [weekday |-> <<"m", "o", "n">>, minute |-> 18 * 60]
    /\ ~sched_ret.ok

\* C13: for a schedule-enabled record with start > end, check_schedule passes
\* exactly when the current weekday is in the allowed-day set and
\* (now >= start or now < end); the part after midnight is tested against the
\* day it falls on.
C13_WrappingWindow ==
    (/\ spc = "done" /\ keyfob.activation_schedule_enabled
     /\ keyfob.activation_start_time # None /\ keyfob.activation_end_time # None
     /\ keyfob.activation_start_time[1] > keyfob.activation_end_time[1]) =>
        LET start == keyfob.activation_start_time[1]
            end   == keyfob.activation_end_time[1]
        IN  sched_ret.ok <=>
               /\ sched_now.weekday \in AllowedDaySet(keyfob)
               /\ (sched_now.minute >= start \/ sched_now.minute < end)

\* Monday 22:00-06:00 evaluated on Tuesday at 05:59: denied, Tuesday is not allowed
C13_Witness ==
    /\ spc = "done" /\ keyfob.activation_schedule_enabled
    /\ keyfob.activation_days = << <<"m", "o", "n">> >>
    /\ keyfob.activation_start_time = T(22, 0) /\ keyfob.activation_end_time = T(6, 0)
    /\ sched_now = [weekday |-> <<"t", "u", "e">>, minute |-> 5 * 60 + 59]
    /\ ~sched_ret.ok

-----------------------------------------------------------------------------
(* update_scheduler_job applied again and again to one configuration       *)

(* Bounds of the model *)

\* calls of update_scheduler_job in one run
MaxApplies == 3

\* configurations: load_auto_backup_config's keys; time is <<hour, minute>>,
\* or <<>> for a string that is not "HH:MM"
BackupConfigs ==
    {[enabled |-> en, frequency |-> f, time |-> t] :
        en \in BOOLEAN, f \in {"daily", "sun"}, t \in {<<3, 0>>, <<4, 30>>, <<>>}}

\* job stores a call can find: empty, or left by a call with another
\* configuration or another hardware state
JobStores ==
    {update_scheduler_job(<<>>, c, hw, FALSE) :
        c \in {DefaultBackupConfig, [enabled |-> TRUE, frequency |-> "sun", time |-> <<3, 0>>]},
        hw \in BOOLEAN}

SchedulerInit ==
    /\ DecoderOff /\ ReaderOff /\ ScheduleOff
    /\ mainpc = "off" /\ relay = 1
    /\ HARDWARE_AVAILABLE \in BOOLEAN
    /\ jobs \in JobStores
    /\ wiegand_queue = <<>> /\ unfinished_tasks = 0 /\ cardsLeft = 0
    /\ accessLog = <<>>
    /\ tpc = "idle" /\ uid = <<>> /\ processed = 0
    /\ decision = NoDecision /\ now_local = NoTime
    /\ rop = [c \in Ctx |-> "none"] /\ rpc = [c \in Ctx |-> "none"]
    /\ conn = [c \in Ctx |-> FALSE] /\ res = [c \in Ctx |-> FALSE]
    /\ secErr = [c \in Ctx |-> FALSE]
    /\ scheduler_running \in BOOLEAN
    /\ backup_config \in BackupConfigs
    /\ applied = 0 /\ jobs_once = <<>> /\ jobs_found = jobs
    /\ settings_opening_time = Absent /\ SettingsOff /\ FramesIdle /\ ExitOff

\* update_scheduler_job(backup_config)
ApplyConfig ==
    /\ applied < MaxApplies
    /\ jobs' = update_scheduler_job(jobs, backup_config, HARDWARE_AVAILABLE,
                                    scheduler_running)
    /\ applied' = applied + 1
    /\ jobs_once' = IF applied = 0 THEN jobs' ELSE jobs_once
    /\ UNCHANGED <<exitVars, decVars, readerVars, schedVars, cfgVars, frameVars, perm_unlocked,
                   fifoVars, mainpc,
                   HARDWARE_AVAILABLE, relay,
                   queueVars, accessLog, tickVars, callVars,
                   scheduler_running, backup_config, jobs_found>>

SchedulerNext == ApplyConfig

SpecScheduler == SchedulerInit /\ [][SchedulerNext]_vars

-----------------------------------------------------------------------------
(* Scheduler claims *)

\* the jobs of the store with the given id
JobsWithId(id) == {i \in 1..Len(jobs) : jobs[i].id = id}

\* the jobs a store holds, whatever the order they were added in
JobSet(js) == {js[i] : i \in 1..Len(js)}

\* C14: update_scheduler_job applied two or more times with one configuration
\* and one hardware state leaves the job store it left the first time, with
\* at most one 'scheduled_backup_job' and at most one 'wiegand_processor'.
C14_UpdateIdempotent ==
    applied >= 1 =>
        /\ JobSet(jobs) = JobSet(jobs_once)
        /\ Len(jobs) = Len(jobs_once)
        /\ Cardinality(JobsWithId(backup_job_id)) <= 1
        /\ Cardinality(JobsWithId(wiegand_job_id)) <= 1

\* an enabled configuration applied twice over a store that held another
\* backup schedule: both jobs there, once each
C14_Witness ==
    /\ applied = 2 /\ backup_config.enabled /\ HARDWARE_AVAILABLE
    /\ backup_config.frequency = "daily" /\ backup_config.time = <<4, 30>>
    /\ Cardinality(JobsWithId(backup_job_id)) = 1
    /\ Cardinality(JobsWithId(wiegand_job_id)) = 1
    /\ \E i \in 1..Len(jobs) : jobs[i].id = backup_job_id /\ jobs[i].trigger.hour = 4

-----------------------------------------------------------------------------
(* The door functions called directly: activate_relay(duration), lock_door, *)
(* unlock_door_permanently from either thread, and cleanup_gpio at exit     *)

\* the argument duration of activate_relay
DurationInputs == {None, Some(-1), Some(0), Some(5), Some(61)}

\* what the settings file holds under 'opening_time'
SettingsInputs == {Absent, Stored(0), Stored(30), Stored(61), Garbled}

DoorInit ==
    /\ DecoderOff /\ ReaderOff /\ ScheduleOff /\ SchedulerOff /\ SettingsOff
    /\ mainpc = "running"
    /\ HARDWARE_AVAILABLE \in BOOLEAN
    /\ relay \in {0, 1}
    /\ jobs = <<>>
    /\ wiegand_queue = <<>> /\ unfinished_tasks = 0 /\ cardsLeft = 0
    /\ accessLog = <<>>
    /\ tpc = "idle" /\ uid = <<>> /\ processed = 0
    /\ decision = NoDecision /\ now_local = NoTime
    /\ rop = [c \in Ctx |-> "none"] /\ rpc = [c \in Ctx |-> "none"]
    /\ conn = [c \in Ctx |-> FALSE] /\ res = [c \in Ctx |-> FALSE]
    /\ secErr = [c \in Ctx |-> FALSE]
    /\ settings_opening_time \in SettingsInputs
    /\ FramesIdle /\ ExitOff

\* a thread calls activate_relay(d), lock_door() or unlock_door_permanently()
DoorCall(c, op, d) ==
    /\ mainpc = "running"
    /\ rpc[c] = "none"
    /\ op # "open" => d = None
    /\ rop' = [rop EXCEPT ![c] = op]
    /\ rpc' = [rpc EXCEPT ![c] = "start"]
    /\ duration' = [duration EXCEPT ![c] = d]
    /\ perm_unlocked' = (perm_unlocked /\ op = "unlock")
    /\ UNCHANGED <<exitVars, schedVars, jobVars, cfgVars, fifoVars, activation_time, wfail, reassert, perm_since,
                   decVars, readerVars, hwVars, queueVars, accessLog, tickVars,
                   conn, res, secErr>>

\* the caller has the (success, message) pair
DoorReturn(c) ==
    /\ rpc[c] = "ret"
    /\ rop' = [rop EXCEPT ![c] = "none"]
    /\ rpc' = [rpc EXCEPT ![c] = "none"]
    /\ conn' = [conn EXCEPT ![c] = FALSE]
    /\ res' = [res EXCEPT ![c] = FALSE]
    /\ secErr' = [secErr EXCEPT ![c] = FALSE]
    /\ FrameReset(c)
    /\ UNCHANGED <<exitVars, schedVars, jobVars, cfgVars, fifoVars, perm_unlocked, decVars, readerVars,
                   hwVars, queueVars, accessLog, tickVars>>

\* cleanup_gpio at interpreter exit: with the hardware set up and the daemon
\* reached, the relay is written to the locked level and the pin released
cleanup_gpio ==
    /\ mainpc = "running"
    /\ mainpc' = "exited"
    /\ IF HARDWARE_AVAILABLE
       THEN \E connected \in BOOLEAN, wrote \in BOOLEAN :
               relay' = IF connected /\ wrote THEN 1 ELSE relay
       ELSE relay' = relay
    /\ perm_unlocked' = FALSE
    /\ UNCHANGED <<exitVars, schedVars, jobVars, cfgVars, fifoVars, frameVars, decVars, readerVars,
                   HARDWARE_AVAILABLE, jobs, queueVars, accessLog, tickVars, callVars>>

DoorNext ==
    \/ \E c \in Ctx, op \in {"open", "lock", "unlock"}, d \in DurationInputs :
          DoorCall(c, op, d)
    \/ \E c \in Ctx : ActivateConnect(c)
    \/ \E c \in Ctx : ActivateRelock(c)
    \/ \E c \in Ctx : ActivateExcept(c)
    \/ \E c \in Ctx : lock_door(c)
    \/ \E c \in Ctx : unlock_door_permanently(c)
    \/ \E c \in Ctx : DoorReturn(c)
    \/ cleanup_gpio

SpecDoor == DoorInit /\ [][DoorNext]_vars

-----------------------------------------------------------------------------
(* Door claims *)

\* C15 (as claimed): the time a momentary open keeps the relay unlocked is
\* within 1..60 seconds, whether it comes from the settings file or from the
\* argument duration.
C15_DurationClamped ==
    \A c \in Ctx :
        (rop[c] = "open" /\ rpc[c] = "sleep") =>
            (1 <= activation_time[c] /\ activation_time[c] <= 60)

\* context c takes the first step of a door call
CallEnters(c) == rpc[c] = "start" /\ rpc'[c] # "start"

\* C17: while HARDWARE_AVAILABLE is false, activate_relay, lock_door and
\* unlock_door_permanently return failure at once: no relay write, no wait.
C17_NoHardwareFailsAtOnce ==
    [][\A c \in Ctx :
          (CallEnters(c) /\ ~HARDWARE_AVAILABLE) =>
              /\ rpc'[c] = "ret" /\ ~res'[c]
              /\ relay' = relay
              /\ conn' = conn /\ wfail' = wfail]_vars

\* unlock_door_permanently returned failure without hardware, relay untouched
C17_Witness ==
    /\ ~HARDWARE_AVAILABLE
    /\ rop["api"] = "unlock" /\ rpc["api"] = "ret" /\ ~res["api"]
    /\ relay = 1

\* C18 (as claimed): once unlock_door_permanently has returned success the
\* relay stays unlocked until a lock, a momentary open or the shutdown
\* cleanup that comes after it.
C18_StaysUnlocked == perm_unlocked => relay = 0

\* C19 (as claimed): a door call in which a relay write raised has attempted
\* to write the locked level again before it returns, and returns failure.
C19_ReassertAfterFailedWrite ==
    \A c \in Ctx :
        (rpc[c] = "ret" /\ wfail[c]) => (reassert[c] /\ ~res[c])

-----------------------------------------------------------------------------
(* set_opening_time and get_opening_time over the settings file            *)

\* the argument new_time_seconds (the API route passes an int)
SecondsInputs == {-1, 0, 1, 30, 60, 61, 100}

\* stored values a call can find
StoredInputs ==
    {Absent, Garbled, Infinite, Stored(-1), Stored(0), Stored(1), Stored(30),
     Stored(60), Stored(61), Stored(100)}

\* MUTANT: the range test left out
set_opening_time_Mut(new_time_seconds, stored, saved, damaged) ==
    IF saved THEN [ok |-> TRUE, stored |-> Stored(new_time_seconds)]
    ELSE [ok |-> FALSE, stored |-> IF damaged THEN Absent ELSE stored]
\* set_opening_time(new_time_seconds): the success flag and what the file
\* holds afterwards. save_json_config opens the file for writing, which
\* empties it, and then dumps: a save that fails leaves the old content
\* (open failed) or a file that no longer parses (dump failed), which reads
\* as the default.
set_opening_time(new_time_seconds, stored, saved, damaged) ==
    IF ~(1 <= new_time_seconds /\ new_time_seconds <= 60)
    THEN [ok |-> FALSE, stored |-> stored]
    ELSE IF saved THEN [ok |-> TRUE, stored |-> Stored(new_time_seconds)]
    ELSE [ok |-> FALSE, stored |-> IF damaged THEN Absent ELSE stored]

SettingsInit ==
    /\ DecoderOff /\ EngineOff /\ ReaderOff /\ ScheduleOff /\ SchedulerOff
    /\ FramesIdle /\ ExitOff
    /\ settings_opening_time \in StoredInputs
    /\ cpc = "idle"
    /\ cfg_call = NoCfgCall

\* a call set_opening_time(s)
SetOpeningTime ==
    /\ cpc = "idle"
    /\ \E s \in SecondsInputs, saved \in BOOLEAN, damaged \in BOOLEAN :
          LET r == set_opening_time(s, settings_opening_time, saved, damaged)
          IN  /\ settings_opening_time' = r.stored
              /\ cfg_call' = [set |-> TRUE, arg |-> s, ok |-> r.ok,
                              before |-> settings_opening_time, got |-> 0,
                              raised |-> FALSE]
    /\ cpc' = "set_done"
    /\ UNCHANGED <<exitVars, decVars, engineVars, readerVars, schedVars, jobVars, frameVars,
                   fifoVars, perm_unlocked>>

\* a call get_opening_time(), first or following a set_opening_time
GetOpeningTime ==
    /\ cpc \in {"idle", "set_done"}
    /\ cfg_call' =
          IF OpeningTimeRaises(settings_opening_time)
          THEN [cfg_call EXCEPT !.raised = TRUE]
          ELSE [cfg_call EXCEPT !.got = get_opening_time(settings_opening_time)]
    /\ cpc' = "get_done"
    /\ UNCHANGED <<exitVars, decVars, engineVars, readerVars, schedVars, jobVars, frameVars,
                   fifoVars, perm_unlocked, settings_opening_time>>

\* the next pair of calls
SettingsAgain ==
    /\ cpc = "get_done"
    /\ cpc' = "idle"
    /\ cfg_call' = NoCfgCall
    /\ UNCHANGED <<exitVars, decVars, engineVars, readerVars, schedVars, jobVars, frameVars,
                   fifoVars, perm_unlocked, settings_opening_time>>

SettingsNext == SetOpeningTime \/ GetOpeningTime \/ SettingsAgain

SpecSettings == SettingsInit /\ [][SettingsNext]_vars

-----------------------------------------------------------------------------
(* Settings claims *)

\* C16: set_opening_time(s) with s outside 1..60 returns failure and leaves
\* the stored opening time as it was; with s inside 1..60 and a successful
\* save the stored value is s and the get_opening_time that follows returns s.
C16_SetOpeningTime ==
    cfg_call.set =>
        IF 1 <= cfg_call.arg /\ cfg_call.arg <= 60
        THEN cfg_call.ok =>
                /\ settings_opening_time = Stored(cfg_call.arg)
                /\ cpc = "get_done" => cfg_call.got = cfg_call.arg
        ELSE /\ ~cfg_call.ok
             /\ settings_opening_time = cfg_call.before

\* 61 was stored, set_opening_time(30) succeeded, get_opening_time gave 30
C16_Witness ==
    /\ cpc = "get_done" /\ cfg_call.set /\ cfg_call.ok
    /\ cfg_call.before = Stored(61) /\ cfg_call.arg = 30 /\ cfg_call.got = 30
    /\ settings_opening_time = Stored(30)

\* C40: get_opening_time returns an integer in 1..60 for every stored
\* setting: a stored integer below 1 gives 1, one above 60 gives 60, and a
\* missing or non-numeric value gives the default 5.
C40_OpeningTimeInRange ==
    cpc = "get_done" =>
        /\ ~cfg_call.raised
        /\ cfg_call.got \in 1..60
        /\ (settings_opening_time.kind = "int" /\ settings_opening_time.v < 1)
              => cfg_call.got = 1
        /\ (settings_opening_time.kind = "int" /\ settings_opening_time.v > 60)
              => cfg_call.got = 60
        /\ settings_opening_time.kind \in {"absent", "text"}
              => cfg_call.got = DEFAULT_OPENING_TIME_SECONDS

-----------------------------------------------------------------------------
(* The access log of a tick.                                                *)

\* C21: every item for which a tick reaches a decision gets exactly one
\* access-attempt record, carrying the item's UID and the granted flag and
\* reason of that decision (the log grows by that one record, never by none).
C21_RecordWrittenOnce ==
    [][(tpc = "lookup" /\ tpc' \in {"relay", "task_done"}) =>
          /\ Len(accessLog') = Len(accessLog) + 1
          /\ accessLog'[Len(accessLog')].uid = uid
          /\ accessLog'[Len(accessLog')].granted = decision'.granted
          /\ accessLog'[Len(accessLog')].reason = decision'.reason]_vars

-----------------------------------------------------------------------------
(* The tick job and the hardware flag.                                      *)

\* C22: after update_scheduler_job has run, the job 'wiegand_processor' is in
\* the store only if HARDWARE_AVAILABLE is true: a call made with the flag
\* false removes the job a previous call registered.
C22_JobOnlyWithHardware ==
    applied >= 1 => (get_job(jobs, wiegand_job_id) => HARDWARE_AVAILABLE)

\* the call found the job registered, the flag is false, and the job is gone
C22_Witness ==
    /\ applied >= 1 /\ ~HARDWARE_AVAILABLE
    /\ get_job(jobs_found, wiegand_job_id)
    /\ ~get_job(jobs, wiegand_job_id)

-----------------------------------------------------------------------------
(* Shutdown: the end of the main block registers cleanup_gpio,              *)
(* shutdown_scheduler and cleanup_on_shutdown with atexit and handle_signal *)
(* for SIGINT and SIGTERM. handle_signal raises SystemExit in the main      *)
(* thread; interpreter finalization runs the atexit functions last          *)
(* registered first, and an exception leaving one of them (SystemExit       *)
(* included) ends that function only. Request threads are daemon threads:   *)
(* they go on until the process is gone.                                    *)

MaxSignals == 2
Signals == {"SIGINT", "SIGTERM"}

\* atexit.register(cleanup_gpio); (shutdown_scheduler); (cleanup_on_shutdown)
AtexitRegistered == <<"cleanup_gpio", "shutdown_scheduler", "cleanup_on_shutdown">>

\* the process as the interpreter starts the main block
ShutdownInit ==
    /\ DecoderOff /\ ReaderOff
    /\ ScheduleOff /\ SchedulerOff
    /\ settings_opening_time = Absent /\ SettingsOff /\ FramesIdle
    /\ mainpc = "init" /\ HARDWARE_AVAILABLE = FALSE
    /\ relay \in {0, 1}
    /\ jobs = <<>>
    /\ wiegand_queue = <<>> /\ unfinished_tasks = 0 /\ cardsLeft = 0
    /\ accessLog = <<>>
    /\ tpc = "idle" /\ uid = <<>> /\ processed = 0
    /\ decision = NoDecision /\ now_local = NoTime
    /\ rop = [c \in Ctx |-> "none"] /\ rpc = [c \in Ctx |-> "none"]
    /\ conn = [c \in Ctx |-> FALSE] /\ res = [c \in Ctx |-> FALSE]
    /\ secErr = [c \in Ctx |-> FALSE]
    /\ xpc = "main" /\ atexit_funcs = <<>> /\ hook = NoHook /\ nsig = 0
    /\ cleanup_runs = 0 /\ cleanup_wrote = None /\ exit_relay = None

\* scheduler.start(), the three atexit.register calls, the two signal.signal
\* calls; the server then takes requests
MainRegister ==
    /\ mainpc = "running" /\ xpc = "main"
    /\ xpc' = "serving"
    /\ scheduler_running' = TRUE
    /\ atexit_funcs' = AtexitRegistered
    /\ UNCHANGED <<decVars, engineVars, readerVars, schedVars, cfgVars, frameVars,
                   perm_unlocked, fifoVars, backup_config, applied, jobs_once,
                   jobs_found, hook, nsig, cleanup_runs, cleanup_wrote, exit_relay>>

\* a door request is served
Serve(op) == xpc = "serving" /\ ApiDoorRequest(op)

\* a request thread takes a step
Alive == xpc \in {"serving", "finalizing"}

\* the main thread leaves app.run() and the module ends
NormalExit ==
    /\ xpc = "serving"
    /\ xpc' = "finalizing"
    /\ exit_relay' = Some(relay)
    /\ UNCHANGED <<decVars, engineVars, readerVars, schedVars, jobVars, cfgVars,
                   frameVars, perm_unlocked, fifoVars, atexit_funcs, hook, nsig,
                   cleanup_runs, cleanup_wrote>>

\* handle_signal(sig, frame): sys.exit(0) in the main thread. While serving it
\* starts finalization; inside an exit function it ends that function where
\* it stands (neither `except Exception` of cleanup_gpio and
\* shutdown_scheduler catches SystemExit) and atexit goes on to the next one
handle_signal(sig) ==
    /\ nsig < MaxSignals
    /\ nsig' = nsig + 1
    /\ \/ /\ xpc = "serving"
          /\ xpc' = "finalizing"
          /\ exit_relay' = Some(relay)
          /\ hook' = hook
       \/ /\ xpc = "finalizing" /\ hook # NoHook
          /\ hook' = NoHook
          /\ UNCHANGED <<xpc, exit_relay>>
    /\ UNCHANGED <<decVars, engineVars, readerVars, schedVars, jobVars, cfgVars,
                   frameVars, perm_unlocked, fifoVars, atexit_funcs,
                   cleanup_runs, cleanup_wrote>>

\* atexit calls the function registered last among those not yet run
HookStart ==
    /\ xpc = "finalizing" /\ hook = NoHook /\ atexit_funcs # <<>>
    /\ hook' = [name |-> atexit_funcs[Len(atexit_funcs)], pc |-> "start"]
    /\ atexit_funcs' = SubSeq(atexit_funcs, 1, Len(atexit_funcs) - 1)
    /\ UNCHANGED <<decVars, engineVars, readerVars, schedVars, jobVars, cfgVars,
                   frameVars, perm_unlocked, fifoVars, xpc, nsig,
                   cleanup_runs, cleanup_wrote, exit_relay>>

\* cleanup_on_shutdown(): log lines and logging.shutdown()
cleanup_on_shutdown ==
    /\ hook = [name |-> "cleanup_on_shutdown", pc |-> "start"]
    /\ hook' = NoHook
    /\ UNCHANGED <<decVars, engineVars, readerVars, schedVars, jobVars, cfgVars,
                   frameVars, perm_unlocked, fifoVars, xpc, atexit_funcs, nsig,
                   cleanup_runs, cleanup_wrote, exit_relay>>

\* shutdown_scheduler(): scheduler.shutdown() when it is running
shutdown_scheduler ==
    /\ hook = [name |-> "shutdown_scheduler", pc |-> "start"]
    /\ hook' = NoHook
    /\ scheduler_running' = FALSE
    /\ UNCHANGED <<decVars, engineVars, readerVars, schedVars, cfgVars, frameVars,
                   perm_unlocked, fifoVars, backup_config, applied, jobs_once,
                   jobs_found, xpc, atexit_funcs, nsig, cleanup_runs,
                   cleanup_wrote, exit_relay>>

\* cleanup_gpio up to pigpio.pi(): it returns at once without hardware or
\* without a connection to the daemon
CleanupConnect ==
    /\ hook = [name |-> "cleanup_gpio", pc |-> "start"]
    /\ \E connected \in BOOLEAN :
          IF HARDWARE_AVAILABLE /\ connected
          THEN /\ hook' = [hook EXCEPT !.pc = "write"]
               /\ cleanup_runs' = cleanup_runs
          ELSE /\ hook' = NoHook
               /\ cleanup_runs' = cleanup_runs + 1
    /\ UNCHANGED <<decVars, engineVars, readerVars, schedVars, jobVars, cfgVars,
                   frameVars, perm_unlocked, fifoVars, xpc, atexit_funcs, nsig,
                   cleanup_wrote, exit_relay>>

\* MUTANT: cleanup_gpio writes the unlocked level
CleanupWrite_Mut ==
    /\ hook = [name |-> "cleanup_gpio", pc |-> "write"]
    /\ relay' = 0
    /\ cleanup_wrote' = Some(0)
    /\ hook' = [hook EXCEPT !.pc = "release"]
    /\ cleanup_runs' = cleanup_runs
    /\ UNCHANGED <<decVars, mainpc, HARDWARE_AVAILABLE, jobs, queueVars, accessLog,
                   tickVars, callVars, readerVars, schedVars, jobVars, cfgVars,
                   frameVars, perm_unlocked, fifoVars, xpc, atexit_funcs, nsig,
                   exit_relay>>
\* set_mode(RELAY_PIN, OUTPUT); write(RELAY_PIN, 1): an exception is printed
\* by the handler and the function returns through its finally clause
CleanupWrite ==
    /\ hook = [name |-> "cleanup_gpio", pc |-> "write"]
    /\ \E wrote \in BOOLEAN :
          IF wrote
          THEN /\ relay' = 1
               /\ cleanup_wrote' = Some(1)
               /\ hook' = [hook EXCEPT !.pc = "release"]
               /\ cleanup_runs' = cleanup_runs
          ELSE /\ hook' = NoHook
               /\ cleanup_runs' = cleanup_runs + 1
               /\ UNCHANGED <<relay, cleanup_wrote>>
    /\ UNCHANGED <<decVars, mainpc, HARDWARE_AVAILABLE, jobs, queueVars, accessLog,
                   tickVars, callVars, readerVars, schedVars, jobVars, cfgVars,
                   frameVars, perm_unlocked, fifoVars, xpc, atexit_funcs, nsig,
                   exit_relay>>

\* the relay pin and the Wiegand pins go back to inputs; an exception here is
\* printed by the handler as well
CleanupRelease ==
    /\ hook = [name |-> "cleanup_gpio", pc |-> "release"]
    /\ hook' = NoHook
    /\ cleanup_runs' = cleanup_runs + 1
    /\ UNCHANGED <<decVars, engineVars, readerVars, schedVars, jobVars, cfgVars,
                   frameVars, perm_unlocked, fifoVars, xpc, atexit_funcs, nsig,
                   cleanup_wrote, exit_relay>>

\* every exit function had its turn: the process ends
ProcessExit ==
    /\ xpc = "finalizing" /\ hook = NoHook /\ atexit_funcs = <<>>
    /\ xpc' = "exited"
    /\ UNCHANGED <<decVars, engineVars, readerVars, schedVars, jobVars, cfgVars,
                   frameVars, perm_unlocked, fifoVars, atexit_funcs, hook, nsig,
                   cleanup_runs, cleanup_wrote, exit_relay>>

ShutdownNext ==
    \/ MainInit
    \/ MainRegister
    \/ \E op \in {"open", "lock", "unlock"} : Serve(op)
    \/ Alive /\ ActivateConnect("api")
    \/ Alive /\ ActivateRelock("api")
    \/ Alive /\ ActivateExcept("api")
    \/ Alive /\ lock_door("api")
    \/ Alive /\ unlock_door_permanently("api")
    \/ Alive /\ ApiDoorRespond
    \/ NormalExit
    \/ \E sig \in Signals : handle_signal(sig)
    \/ HookStart
    \/ cleanup_on_shutdown
    \/ shutdown_scheduler
    \/ CleanupConnect
    \/ CleanupWrite
    \/ CleanupRelease
    \/ ProcessExit

SpecShutdown == ShutdownInit /\ [][ShutdownNext]_vars

\* C23: when the process has ended after a normal exit, SIGINT or SIGTERM,
\* cleanup_gpio has run to its end exactly once, also when a second signal
\* arrived during the shutdown.
C23_CleanupRunsOnce == xpc = "exited" => cleanup_runs = 1

\* C24: after a successful setup_gpio, before any request or job has run, the
\* relay is at the locked level 1; and the relay write cleanup_gpio makes at
\* shutdown writes level 1, whatever level the relay had when the shutdown
\* began.
C24_LockedAtStartAndShutdown ==
    /\ []((xpc = "main" /\ mainpc = "running" /\ HARDWARE_AVAILABLE) => relay = 1)
    /\ [](cleanup_wrote # None => cleanup_wrote = Some(1))
    /\ [][cleanup_wrote' # cleanup_wrote => relay' = 1]_vars

\* the shutdown began with the relay unlocked and cleanup_gpio wrote
C24_Witness ==
    /\ HARDWARE_AVAILABLE /\ exit_relay = Some(0)
    /\ cleanup_wrote = Some(1) /\ xpc = "exited"

-----------------------------------------------------------------------------
(* Frame assembly claims *)

\* C25: the assembler decides to snapshot and clear only when the collector is
\* not empty and more than WIEGAND_TIMEOUT_MS of real time has passed since the
\* last pulse that was appended, under every interleaving with the callback:
\* no frame is cut while its pulses are less than the timeout apart.
C25_CutOnlyAfterSilence ==
    [][(wpc = "check" /\ wpc' = "copy") =>
          /\ Len(collector) > 0
          /\ clock - last_edge_tick > WIEGAND_TIMEOUT_MS * 1000]_vars

-----------------------------------------------------------------------------
(* Exceptions and the batch limit of a tick *)

\* C26: when the processing of a dequeued item raises an exception other than
\* OperationalError, the item is consumed: the handler calls task_done, puts
\* nothing back, and the item is never in the queue again; the same tick then
\* takes the next item whenever one is queued and fewer than max_per_cycle
\* items were taken.
C26_ExceptionConsumes ==
    /\ [](exc_seq # 0 =>
             /\ exc_seq <= last_dequeued
             /\ \A i \in 1..Len(qseq) : qseq[i] # exc_seq)
    /\ [][exc_seq' # exc_seq =>
             /\ tpc \in {"lookup", "relay"} /\ tpc' = "loop"
             /\ exc_seq' = last_dequeued
             /\ wiegand_queue' = wiegand_queue
             /\ processed' = processed
             /\ unfinished_tasks' = TaskDone(unfinished_tasks)]_vars
    /\ [][(tpc = "loop" /\ tpc' # "loop" /\ processed >= 1
              /\ exc_seq = last_dequeued) =>
             IF wiegand_queue # <<>> /\ processed < max_per_cycle
             THEN tpc' = "lookup" /\ last_dequeued' = qseq[1]
             ELSE tpc' = "idle"]_vars

\* the first item of a tick raised and the same tick is at the second item
C26_Witness ==
    /\ exc_seq = 1 /\ last_dequeued = 2
    /\ tick_first = 0 /\ processed = 2 /\ tpc = "lookup"

-----------------------------------------------------------------------------
(* A backlog: the queue holds more items than one tick takes.               *)

\* the number of queued items beyond max_per_cycle
BacklogExtra == 1

\* the UIDs queued: card 10 (granted) first, then the unknown card 13
BacklogQueue(n) == [i \in 1..n |-> DecStr(IF i = 1 THEN 10 ELSE 13)]

\* the reader thread has queued n cards since the last tick ended
BatchInit ==
    /\ DecoderOff /\ ReaderOff
    /\ ScheduleOff /\ SchedulerOff /\ settings_opening_time = Absent /\ SettingsOff
    /\ ExitOff
    /\ duration = [c \in Ctx |-> None]
    /\ activation_time = [c \in Ctx |-> 0]
    /\ wfail = [c \in Ctx |-> FALSE]
    /\ reassert = [c \in Ctx |-> FALSE]
    /\ perm_since = <<>>
    /\ perm_unlocked = FALSE
    /\ mainpc = "running" /\ HARDWARE_AVAILABLE = TRUE /\ relay = 1
    /\ jobs = update_scheduler_job(<<>>, DefaultBackupConfig, TRUE, FALSE)
    /\ \E n \in {2, max_per_cycle, max_per_cycle + BacklogExtra} :
          /\ wiegand_queue = BacklogQueue(n)
          /\ qseq = [i \in 1..n |-> i]
          /\ unfinished_tasks = n
    /\ last_dequeued = 0 /\ tick_first = 0 /\ exc_seq = 0
    /\ instances = 0 /\ missed = FALSE
    /\ cardsLeft = 0
    /\ accessLog = <<>>
    /\ tpc = "idle" /\ uid = <<>> /\ processed = 0
    /\ decision = NoDecision /\ now_local = NoTime
    /\ rop = [c \in Ctx |-> "none"] /\ rpc = [c \in Ctx |-> "none"]
    /\ conn = [c \in Ctx |-> FALSE] /\ res = [c \in Ctx |-> FALSE]
    /\ secErr = [c \in Ctx |-> FALSE]

BatchNext ==
    \/ TickStart
    \/ TickLoop
    \/ TickDecide
    \/ TickRelayReturn
    \/ TickTaskDone
    \/ TickAbortReturn
    \/ ActivateConnect("tick")
    \/ ActivateRelock("tick")
    \/ ActivateExcept("tick")

SpecBatch == BatchInit /\ [][BatchNext]_vars

\* C27: one tick takes at most max_per_cycle = 10 items from the queue,
\* whatever the queue length and whatever mix of grants, denials and
\* exceptions occurs; the items beyond stay queued in their arrival order.
C27_BatchLimit ==
    /\ [](tpc # "idle" => last_dequeued - tick_first <= max_per_cycle)
    /\ [](\A i \in 1..Len(qseq) : qseq[i] = last_dequeued + i)
    /\ [](Len(wiegand_queue) = Len(qseq))
    /\ [][Len(wiegand_queue') < Len(wiegand_queue) =>
             /\ wiegand_queue' = Tail(wiegand_queue)
             /\ last_dequeued' - tick_first' <= max_per_cycle]_vars

\* a tick has taken ten items, grants, denials and an exception among them,
\* and has ended with the eleventh item still queued
C27_Witness ==
    /\ tpc = "idle" /\ last_dequeued = max_per_cycle /\ tick_first = 0
    /\ wiegand_queue = <<DecStr(13)>>
    /\ exc_seq # 0
    /\ \E i \in 1..Len(accessLog) : accessLog[i].granted
    /\ \E i \in 1..Len(accessLog) : ~accessLog[i].granted

\* the bit a pulse on the pin of event ev stands for
PulseBit == IF ev.gpio = WIEGAND_PIN_D0 THEN 0 ELSE 1

\* C28 (as claimed): the callback ignores a pulse exactly when the collector
\* holds more than WIEGAND_EXPECTED_BITS + 8 = 34 bits and appends it
\* otherwise.
C28_IgnoreAbove34 ==
    [][(cbpc = "append" /\ cbpc' # "append") =>
          IF Len(collector) > WIEGAND_EXPECTED_BITS + 8
          THEN collector' = collector
          ELSE collector' = Append(collector, PulseBit)]_vars

\* C28 (amended): the callback ignores a pulse exactly when the collector
\* holds at least 34 bits and appends it otherwise; a collector of 34 bits
\* changes only by the assembler's clear, and the collector never holds more
\* than 34 bits.
C28_IgnoreFrom34 ==
    /\ [][(cbpc = "append" /\ cbpc' # "append") =>
             IF Len(collector) >= WIEGAND_EXPECTED_BITS + 8
             THEN collector' = collector /\ nIgnored' = nIgnored + 1
             ELSE collector' = Append(collector, PulseBit) /\ nIgnored' = nIgnored]_vars
    /\ [][(Len(collector) >= WIEGAND_EXPECTED_BITS + 8 /\ collector' # collector) =>
             wpc = "reset" /\ collector' = <<>>]_vars
    /\ [](Len(collector) <= WIEGAND_EXPECTED_BITS + 8)

\* a pulse was ignored at 34 bits, the assembler cleared, and the next pulse
\* was appended
C28_Witness ==
    /\ nIgnored >= 1
    /\ nAppended = WIEGAND_EXPECTED_BITS + 8 + 1
    /\ Len(collector) = 1

\* int(text) of a decimal string
RECURSIVE ParseDecAcc(_, _)
ParseDecAcc(text, acc) ==
    IF text = <<>> THEN acc
    ELSE ParseDecAcc(Tail(text),
                     10 * acc + (CHOOSE d \in 0..9 : DigitChars[d + 1] = Head(text)))
ParseDec(text) == ParseDecAcc(text, 0)

\* C30: a snapshot puts an item on the queue if and only if it is
\* WIEGAND_EXPECTED_BITS = 26 bits long: a 26-bit snapshot puts exactly one,
\* the decimal string of its decoded ID, and a snapshot of any other length
\* (34 bits at the overflow guard included) puts none; so the queue holds as
\* many items as 26-bit snapshots were processed, each the decimal string of
\* an integer in 0 .. 2^24 - 1.
C30_EnqueueIffExpectedLength ==
    /\ [][(wpc = "process" /\ wpc' # "process") =>
             IF Len(bits) = WIEGAND_EXPECTED_BITS
             THEN wiegand_queue' = Append(wiegand_queue, DecStr(DecodeFields(bits)))
             ELSE wiegand_queue' = wiegand_queue]_vars
    /\ [][wpc # "process" => wiegand_queue' = wiegand_queue]_vars
    /\ [](Len(wiegand_queue) =
             nSnap26 - (IF wpc \in {"reset", "process"}
                           /\ Len(bits) = WIEGAND_EXPECTED_BITS THEN 1 ELSE 0))
    /\ [](\A i \in 1..Len(wiegand_queue) :
             /\ wiegand_queue[i] # <<>>
             /\ \A k \in 1..Len(wiegand_queue[i]) :
                   \E d \in 0..9 : DigitChars[d + 1] = wiegand_queue[i][k]
             /\ ParseDec(wiegand_queue[i]) \in 0..(Pow2(24) - 1)
             /\ DecStr(ParseDec(wiegand_queue[i])) = wiegand_queue[i])

\* the 26 bits of a card were snapshot and its ID 65538 is on the queue
C30_Witness ==
    /\ nSnap26 = 1 /\ wpc = "stamp" /\ Len(bits) = WIEGAND_EXPECTED_BITS
    /\ wiegand_queue = <<DecStr(65538)>>

-----------------------------------------------------------------------------
(* Schedule without a time range *)

\* C29: for a schedule-enabled record whose allowed days contain the current
\* weekday and whose start time or end time is not set, check_schedule passes
\* at every time of day (and an active record is granted).
C29_WholeDayWithoutRange ==
    (/\ spc = "done" /\ keyfob.activation_schedule_enabled
     /\ sched_now.weekday \in AllowedDaySet(keyfob)
     /\ (keyfob.activation_start_time = None \/ keyfob.activation_end_time = None)) =>
        /\ sched_ret.ok
        /\ keyfob.is_active => sched_ret.decision.granted

\* Monday allowed, no start, end 18:00, evaluated on Monday at 23:59: passes
C29_Witness ==
    /\ spc = "done" /\ keyfob.activation_schedule_enabled /\ keyfob.is_active
    /\ keyfob.activation_days = << <<"M", "o", "n">> >>
    /\ keyfob.activation_start_time = None /\ keyfob.activation_end_time = T(18, 0)
    /\ sched_now = [weekday |-> <<"m", "o", "n">>, minute |-> 23 * 60 + 59]
    /\ sched_ret.ok /\ sched_ret.decision.granted


\* ---------------------------------------------------------------------------
\* C31: at most one execution of the tick is in progress at any time; the
\* credential queue is shortened only by the one running tick, so while that
\* tick is blocked inside a momentary open nothing is dequeued.
C31_SingleTick ==
    /\ [](instances <= 1 /\ (instances = 1 <=> tpc # "idle"))
    /\ [][Len(wiegand_queue') < Len(wiegand_queue)
            => (tpc = "loop" /\ instances = 1 /\ rpc["tick"] = "none")]_vars

\* a fire of the job was skipped while the tick slept inside the momentary
\* open with a credential waiting in the queue
C31_Witness ==
    /\ tpc = "relay" /\ rpc["tick"] = "sleep"
    /\ missed /\ instances = 1
    /\ Len(wiegand_queue) > 0


\* ---------------------------------------------------------------------------
\* The reader thread's life: start_wiegand_thread_once at startup and the
\* outer loop of run_wiegand_reader_thread (connect, subscribe, collect,
\* clean up, again).  The collecting loop itself is SpecReader.
MaxDrops == 2
MaxFaults == 1

\* time.sleep(10) after a failed connect, time.sleep(15) after an exception
WaitConnect == 10
WaitExcept == 15

captureVars == <<collector, last_pulse_tick, clock, wire, cbpc, ev, wpc, tick_now,
                 nAppended, nFramed, last_edge_tick, nIgnored, nSnap26>>

\* a handle returned by pigpio.pi()
Handle(id, connected) == [id |-> id, connected |-> connected]

\* callbacks that a falling edge on the pin invokes: registered, not cancelled,
\* on a handle whose connection is up
ActiveSubs(pin) == {s \in subs : s.pin = pin /\ s.h \in live}

\* connected and listening on both data lines
Subscribed ==
    /\ lpc = "inner" /\ pi # None /\ pi[1].id \in live
    /\ cb0 = Some(pi[1].id) /\ cb1 = Some(pi[1].id)
    /\ ActiveSubs(WIEGAND_PIN_D0) # {} /\ ActiveSubs(WIEGAND_PIN_D1) # {}

ConnInit ==
    /\ DecoderOff /\ ExtOff
    /\ mainpc = "off" /\ HARDWARE_AVAILABLE \in BOOLEAN /\ relay = 1 /\ jobs = <<>>
    /\ wiegand_queue = <<>> /\ unfinished_tasks = 0 /\ cardsLeft = 0
    /\ accessLog = <<>>
    /\ tpc = "idle" /\ uid = <<>> /\ processed = 0
    /\ decision = NoDecision /\ now_local = NoTime
    /\ rop = [c \in Ctx |-> "none"] /\ rpc = [c \in Ctx |-> "none"]
    /\ conn = [c \in Ctx |-> FALSE] /\ res = [c \in Ctx |-> FALSE]
    /\ secErr = [c \in Ctx |-> FALSE]
    /\ collector = <<>> /\ last_pulse_tick = 0 /\ clock = 0 /\ wire = <<>>
    /\ cbpc = "off" /\ ev = [gpio |-> 0, level |-> 0, tick |-> 0]
    /\ wpc = "off" /\ tick_now = 0
    /\ nAppended = 0 /\ nFramed = 0
    /\ last_edge_tick = 0 /\ nIgnored = 0 /\ nSnap26 = 0
    /\ daemon \in BOOLEAN /\ wiegand_thread_started = FALSE /\ lpc = "unstarted"
    /\ pi = None /\ cb0 = None /\ cb1 = None /\ subs = {} /\ live = {}
    /\ nconn = 0 /\ ndrops = 0 /\ faults = 0 /\ last_wait = 0
    /\ tried = FALSE /\ half = FALSE /\ delivered = 0

\* pigpiod stops or is restarted by the system; a connection that is lost is
\* lost for good, and pi.connected of the thread's handle may or may not show it
DaemonDown ==
    /\ daemon /\ ndrops < MaxDrops
    /\ daemon' = FALSE /\ live' = {} /\ ndrops' = ndrops + 1
    /\ \E seen \in BOOLEAN :
          pi' = IF pi # None /\ seen THEN Some(Handle(pi[1].id, FALSE)) ELSE pi
    /\ UNCHANGED <<decVars, engineVars, extVars, captureVars,
                   wiegand_thread_started, lpc, cb0, cb1, subs, nconn, faults,
                   last_wait, tried, half, delivered>>

DaemonUp ==
    /\ ~daemon
    /\ daemon' = TRUE
    /\ UNCHANGED <<decVars, engineVars, extVars, captureVars,
                   wiegand_thread_started, lpc, pi, cb0, cb1, subs, live, nconn,
                   ndrops, faults, last_wait, tried, half, delivered>>

\* start_wiegand_thread_once without the pre-check of the daemon
start_wiegand_thread_once_Mut ==
    /\ lpc = "unstarted"
    /\ IF wiegand_thread_started \/ ~HARDWARE_AVAILABLE
       THEN lpc' = "notstarted" /\ UNCHANGED wiegand_thread_started
       ELSE lpc' = "entry" /\ wiegand_thread_started' = TRUE
    /\ UNCHANGED <<decVars, engineVars, extVars, captureVars,
                   daemon, pi, cb0, cb1, subs, live, nconn, ndrops, faults,
                   last_wait, tried, half, delivered>>

\* the one call of the main block: returns without a thread when the flag is
\* set, the hardware is not available or the pre-check handle is not connected;
\* the pre-check handle is stopped before the function returns
start_wiegand_thread_once ==
    /\ lpc = "unstarted"
    /\ IF wiegand_thread_started \/ ~HARDWARE_AVAILABLE \/ ~daemon
       THEN lpc' = "notstarted" /\ UNCHANGED wiegand_thread_started
       ELSE lpc' = "entry" /\ wiegand_thread_started' = TRUE
    /\ UNCHANGED <<decVars, engineVars, extVars, captureVars,
                   daemon, pi, cb0, cb1, subs, live, nconn, ndrops, faults,
                   last_wait, tried, half, delivered>>

\* run_wiegand_reader_thread up to its outer loop
ThreadEntry ==
    /\ lpc = "entry"
    /\ lpc' = IF HARDWARE_AVAILABLE THEN "connect" ELSE "ended"
    /\ UNCHANGED <<decVars, engineVars, extVars, captureVars,
                   daemon, wiegand_thread_started, pi, cb0, cb1, subs, live, nconn,
                   ndrops, faults, last_wait, tried, half, delivered>>

\* pi = pigpio.pi(); not connected: sleep 10 s and continue (through finally)
ThreadConnect ==
    /\ lpc = "connect"
    /\ tried' = TRUE /\ half' = FALSE
    /\ IF daemon
       THEN /\ nconn' = nconn + 1
            /\ pi' = Some(Handle(nconn + 1, TRUE))
            /\ live' = live \cup {nconn + 1}
            /\ last_wait' = 0
            /\ lpc' = "sub0"
       ELSE /\ pi' = Some(Handle(0, FALSE))
            /\ last_wait' = WaitConnect
            /\ lpc' = "fin_cb0"
            /\ UNCHANGED <<nconn, live>>
    /\ UNCHANGED <<decVars, engineVars, extVars, captureVars,
                   daemon, wiegand_thread_started, cb0, cb1, subs, ndrops, faults,
                   delivered>>

\* cb0 = pi.callback(WIEGAND_PIN_D0, ...); raises on a lost connection
ThreadSubscribe0 ==
    /\ lpc = "sub0"
    /\ IF pi[1].id \in live
       THEN /\ cb0' = Some(pi[1].id)
            /\ subs' = subs \cup {[pin |-> WIEGAND_PIN_D0, h |-> pi[1].id]}
            /\ lpc' = "sub1"
       ELSE /\ lpc' = "except"
            /\ UNCHANGED <<cb0, subs>>
    /\ UNCHANGED <<decVars, engineVars, extVars, captureVars,
                   daemon, wiegand_thread_started, pi, cb1, live, nconn, ndrops,
                   faults, last_wait, tried, half, delivered>>

\* cb1 = pi.callback(WIEGAND_PIN_D1, ...); raises on a lost connection
ThreadSubscribe1 ==
    /\ lpc = "sub1"
    /\ IF pi[1].id \in live
       THEN /\ cb1' = Some(pi[1].id)
            /\ subs' = subs \cup {[pin |-> WIEGAND_PIN_D1, h |-> pi[1].id]}
            /\ lpc' = "stamp"
            /\ UNCHANGED half
       ELSE /\ lpc' = "except" /\ half' = TRUE
            /\ UNCHANGED <<cb1, subs>>
    /\ UNCHANGED <<decVars, engineVars, extVars,
                   collector, last_pulse_tick, clock, wire, cbpc, ev, wpc, tick_now,
                   nAppended, nFramed, last_edge_tick, nIgnored, nSnap26,
                   daemon, wiegand_thread_started, pi, cb0, live, nconn, ndrops,
                   faults, last_wait, tried, delivered>>

\* _last_pulse_tick = pi.get_current_tick(), then the collecting loop is entered
ThreadStamp ==
    /\ lpc = "stamp"
    /\ IF pi[1].id \in live
       THEN lpc' = "inner" /\ last_pulse_tick' = clock
       ELSE lpc' = "except" /\ UNCHANGED last_pulse_tick
    /\ UNCHANGED <<decVars, engineVars, extVars,
                   collector, clock, wire, cbpc, ev, wpc, tick_now,
                   nAppended, nFramed, last_edge_tick, nIgnored, nSnap26,
                   daemon, wiegand_thread_started, pi, cb0, cb1, subs, live, nconn,
                   ndrops, faults, last_wait, tried, half, delivered>>

\* the collecting loop ends: `while pi.connected` is false (falls through to
\* finally without a sleep), or a call inside it raises
ThreadPoll ==
    /\ lpc = "inner"
    /\ \/ /\ ~pi[1].connected
          /\ lpc' = "fin_cb0"
          /\ UNCHANGED faults
       \/ /\ pi[1].connected /\ pi[1].id \notin live
          /\ lpc' = "except"
          /\ UNCHANGED faults
       \/ /\ pi[1].connected /\ pi[1].id \in live /\ faults < MaxFaults
          /\ lpc' = "except"
          /\ faults' = faults + 1
    /\ UNCHANGED <<decVars, engineVars, extVars, captureVars,
                   daemon, wiegand_thread_started, pi, cb0, cb1, subs, live, nconn,
                   ndrops, last_wait, tried, half, delivered>>

\* MUTANT: the exception leaves the outer loop
ThreadExcept_Mut ==
    /\ lpc = "except"
    /\ lpc' = "ended"
    /\ UNCHANGED <<decVars, engineVars, extVars, captureVars,
                   daemon, wiegand_thread_started, pi, cb0, cb1, subs, live, nconn,
                   ndrops, faults, last_wait, tried, half, delivered>>

\* except Exception: log, time.sleep(15), then finally
ThreadExcept ==
    /\ lpc = "except"
    /\ last_wait' = WaitExcept
    /\ lpc' = "fin_cb0"
    /\ UNCHANGED <<decVars, engineVars, extVars, captureVars,
                   daemon, wiegand_thread_started, pi, cb0, cb1, subs, live, nconn,
                   ndrops, faults, tried, half, delivered>>

\* finally: if cb0: cb0.cancel() (an exception of cancel is logged), cb0 = None.
\* cancel takes the callback off the handle's list before it talks to the daemon
ThreadFinallyCb0 ==
    /\ lpc = "fin_cb0"
    /\ subs' = IF cb0 # None
               THEN subs \ {[pin |-> WIEGAND_PIN_D0, h |-> cb0[1]]} ELSE subs
    /\ cb0' = None
    /\ lpc' = "fin_cb1"
    /\ UNCHANGED <<decVars, engineVars, extVars, captureVars,
                   daemon, wiegand_thread_started, pi, cb1, live, nconn, ndrops,
                   faults, last_wait, tried, half, delivered>>

\* MUTANT: cb1 is dropped without cancel
ThreadFinallyCb1_Mut ==
    /\ lpc = "fin_cb1"
    /\ cb1' = None
    /\ lpc' = "fin_pi"
    /\ UNCHANGED <<decVars, engineVars, extVars, captureVars,
                   daemon, wiegand_thread_started, pi, cb0, subs, live, nconn, ndrops,
                   faults, last_wait, tried, half, delivered>>

\* finally: if cb1: cb1.cancel(), cb1 = None (reached also when cb0.cancel raised)
ThreadFinallyCb1 ==
    /\ lpc = "fin_cb1"
    /\ subs' = IF cb1 # None
               THEN subs \ {[pin |-> WIEGAND_PIN_D1, h |-> cb1[1]]} ELSE subs
    /\ cb1' = None
    /\ lpc' = "fin_pi"
    /\ UNCHANGED <<decVars, engineVars, extVars, captureVars,
                   daemon, wiegand_thread_started, pi, cb0, live, nconn, ndrops,
                   faults, last_wait, tried, half, delivered>>

\* finally: if pi and pi.connected: pi.stop(); pi = None; back to `while`
ThreadFinallyPi ==
    /\ lpc = "fin_pi"
    /\ live' = IF pi # None /\ pi[1].connected THEN live \ {pi[1].id} ELSE live
    /\ pi' = None
    /\ lpc' = "connect"
    /\ UNCHANGED <<decVars, engineVars, extVars, captureVars,
                   daemon, wiegand_thread_started, cb0, cb1, subs, nconn, ndrops,
                   faults, last_wait, tried, half, delivered>>

\* a card pulls one data line low: pigpio invokes every callback that is
\* active for that pin
LinePulse ==
    /\ \E pin \in {WIEGAND_PIN_D0, WIEGAND_PIN_D1} :
          /\ ActiveSubs(pin) # {}
          /\ delivered' = Cardinality(ActiveSubs(pin))
    /\ UNCHANGED <<decVars, engineVars, extVars, captureVars,
                   daemon, wiegand_thread_started, lpc, pi, cb0, cb1, subs, live,
                   nconn, ndrops, faults, last_wait, tried, half>>

ThreadStep ==
    \/ ThreadEntry
    \/ ThreadConnect
    \/ ThreadSubscribe0
    \/ ThreadSubscribe1
    \/ ThreadStamp
    \/ ThreadPoll
    \/ ThreadExcept
    \/ ThreadFinallyCb0
    \/ ThreadFinallyCb1
    \/ ThreadFinallyPi

ConnNext ==
    \/ DaemonDown
    \/ DaemonUp
    \/ start_wiegand_thread_once
    \/ ThreadStep
    \/ LinePulse

SpecConnect == ConnInit /\ [][ConnNext]_vars

\* the thread is scheduled again and again and its sleeps end
SpecConnectFair == SpecConnect /\ WF_vars(ThreadStep)


\* ---------------------------------------------------------------------------
\* C32: when the daemon is not reachable at the startup call of
\* start_wiegand_thread_once, the function returns without a thread: the flag
\* stays false and the process never connects or subscribes afterwards, even
\* when the daemon comes back.
C32_NoRetryAfterFailedStart ==
    /\ [][(lpc = "unstarted" /\ ~daemon) => lpc' \in {"unstarted", "notstarted"}]_vars
    /\ [][lpc = "notstarted" => lpc' = "notstarted"]_vars
    /\ [](lpc = "notstarted" =>
            /\ ~wiegand_thread_started /\ ~tried
            /\ pi = None /\ cb0 = None /\ cb1 = None
            /\ subs = {} /\ nconn = 0)

\* the hardware was set up, the pre-check failed, and the daemon is back
C32_Witness ==
    /\ lpc = "notstarted" /\ HARDWARE_AVAILABLE
    /\ daemon /\ ~wiegand_thread_started /\ ~tried

\* ---------------------------------------------------------------------------
\* C33: once connected the thread never ends: every failure leads back to the
\* connect step (10 s after a failed connect, 15 s after an exception), and
\* when the daemon stays reachable the thread ends up connected and subscribed
\* to both data lines for good.
C33_ReconnectsForever ==
    /\ [](nconn >= 1 => lpc \notin {"ended", "notstarted", "unstarted"})
    /\ [][(lpc = "connect" /\ lpc' = "fin_cb0") => last_wait' = WaitConnect]_vars
    /\ [][(lpc = "except" /\ lpc' # lpc) =>
             (lpc' = "fin_cb0" /\ last_wait' = WaitExcept)]_vars
    /\ (lpc \in {"except", "fin_cb0", "fin_cb1", "fin_pi"}) ~> (lpc = "connect")
    /\ (<>[](daemon /\ nconn >= 1)) => <>[]Subscribed

\* connected again on a second handle after the daemon had gone away
C33_Witness ==
    /\ Subscribed /\ daemon
    /\ nconn >= 2 /\ ndrops >= 1

\* ---------------------------------------------------------------------------
\* C34: when the thread is about to connect, the callbacks of the previous
\* iteration are cancelled and its handle is released; no data line ever has
\* two active callbacks, so no pulse is delivered twice.
C34_OneSubscriptionPerLine ==
    /\ \A pin \in {WIEGAND_PIN_D0, WIEGAND_PIN_D1} : Cardinality(ActiveSubs(pin)) <= 1
    /\ delivered <= 1
    /\ lpc = "connect" => (cb0 = None /\ cb1 = None /\ pi = None /\ subs = {})

\* back at the connect step after D1 failed to register, daemon reachable
C34_Witness ==
    /\ lpc = "connect" /\ half /\ daemon
    /\ nconn >= 1 /\ last_wait = WaitExcept


\* ---------------------------------------------------------------------------
\* the steps of a tick that has started: the executor's thread runs on, and
\* the sleep of the momentary open ends
TickRun ==
    \/ TickLoop
    \/ TickDecide
    \/ TickRelayReturn
    \/ TickTaskDone
    \/ TickAbortReturn
    \/ ActivateConnect("tick")
    \/ ActivateRelock("tick")
    \/ ActivateExcept("tick")

\* the tick finds more items than it may take
BatchFullInit == BatchInit /\ Len(wiegand_queue) > max_per_cycle

SpecBatchFair == BatchFullInit /\ [][BatchNext]_vars /\ WF_vars(TickRun)

\* C35: a tick that has started returns: whatever fails (the lookup or the
\* schedule evaluation raising, the record not being saved, the relay call
\* failing or raising) the task is back at its caller after at most
\* max_per_cycle items, and it is never left by an exception.
C35_TickReturns ==
    /\ [](tpc \in {"idle", "loop", "lookup", "relay", "task_done", "aborted"})
    /\ [](processed <= max_per_cycle)
    /\ [](instances = 1 => <>(instances = 0))

\* a tick returned after ten items, one of which raised, with items left
C35_Witness ==
    /\ tpc = "idle" /\ instances = 0
    /\ processed = max_per_cycle
    /\ exc_seq # 0
    /\ wiegand_queue # <<>>


\* ---------------------------------------------------------------------------
\* _wiegand_pulse_callback on its own: calls with every pin and level, on
\* collectors below, just below and at the overflow guard.
RELAY_PIN == 12
MaxCalls == 2

\* n alternating bits
FilledCollector(n) == [i \in 1..n |-> i % 2]

CollectorInputs ==
    {FilledCollector(n) : n \in {0, 2, WIEGAND_EXPECTED_BITS + 7, WIEGAND_EXPECTED_BITS + 8}}

\* the arguments pigpio can hand to a callback: level 0 (falling), 1 (rising),
\* 2 (watchdog); the two data lines and one other pin
CallbackArgs == [gpio : {WIEGAND_PIN_D0, WIEGAND_PIN_D1, RELAY_PIN}, level : {0, 1, 2}]

\* the i-th call carries tick i * ClockStepUs
CallSequences ==
    {[i \in 1..MaxCalls |-> [gpio |-> a[i].gpio, level |-> a[i].level,
                             tick |-> i * ClockStepUs]] : a \in [1..MaxCalls -> CallbackArgs]}

CallbackInit ==
    /\ src = NoSrc /\ dpc = "off" /\ bits = <<>> /\ cid = NoId
    /\ EngineOff /\ ExtOff
    /\ collector \in CollectorInputs
    /\ wire \in CallSequences
    /\ nAppended = 0
    /\ last_pulse_tick = 0 /\ clock = 0
    /\ cbpc = "idle" /\ ev = [gpio |-> 0, level |-> 0, tick |-> 0]
    /\ wpc = "off" /\ tick_now = 0
    /\ nFramed = 0
    /\ last_edge_tick = 0 /\ nIgnored = 0 /\ nSnap26 = 0
    /\ ConnOff

\* pigpio's callback thread calls _wiegand_pulse_callback(gpio, level, tick)
CallbackInvoke ==
    /\ cbpc = "idle" /\ wire # <<>>
    /\ ev' = Head(wire)
    /\ wire' = Tail(wire)
    /\ cbpc' = "append"
    /\ UNCHANGED <<extVars, decVars, engineVars, collector, last_pulse_tick, clock,
                   wpc, tick_now, nAppended, nFramed, readerHist>>

CallbackNext ==
    \/ CallbackInvoke
    \/ CallbackAppend
    \/ CallbackStamp

SpecCallback == CallbackInit /\ [][CallbackNext]_vars

\* C36: a call with level 0 from D0 (D1) below the overflow guard puts 0 (1)
\* at the end of the collector and then makes its tick the last-pulse tick;
\* every other call returns with the collector and the last-pulse tick as
\* they were.
C36_CallbackEffect ==
    /\ [][(cbpc = "append" /\ cbpc' # "append") =>
             IF /\ ev.level = 0
                /\ ev.gpio \in {WIEGAND_PIN_D0, WIEGAND_PIN_D1}
                /\ Len(collector) < WIEGAND_EXPECTED_BITS + 8
             THEN /\ collector' = collector \o <<IF ev.gpio = WIEGAND_PIN_D0 THEN 0 ELSE 1>>
                  /\ cbpc' = "stamp"
             ELSE /\ collector' = collector
                  /\ last_pulse_tick' = last_pulse_tick
                  /\ cbpc' = "idle"]_vars
    /\ [][(cbpc = "stamp" /\ cbpc' # "stamp") =>
             /\ last_pulse_tick' = ev.tick
             /\ collector' = collector
             /\ cbpc' = "idle"]_vars

\* the first call appended a 1 and stamped its tick; the second, a watchdog
\* report on the same line, changed neither
C36_Witness ==
    /\ cbpc = "idle"
    /\ nAppended = 1 /\ nIgnored = 1
    /\ collector # <<>> /\ collector[Len(collector)] = 1
    /\ ev.level = 2 /\ ev.gpio = WIEGAND_PIN_D1
    /\ last_pulse_tick = ClockStepUs /\ last_pulse_tick < ev.tick


\* ---------------------------------------------------------------------------
\* The interval trigger against a running tick: a short backlog, the tick, and
\* the fires that find an instance running.
FireInit == BatchInit /\ Len(wiegand_queue) < max_per_cycle

FireNext ==
    \/ BatchNext
    \/ TickFireMissed

SpecFire == FireInit /\ [][FireNext]_vars

\* ---------------------------------------------------------------------------
\* The engine with the history of permanent unlocks kept.
LatchInit ==
    /\ DecoderOff /\ ReaderOff
    /\ ScheduleOff /\ SchedulerOff
    /\ settings_opening_time = Absent /\ SettingsOff /\ ExitOff
    /\ duration = [c \in Ctx |-> None]
    /\ activation_time = [c \in Ctx |-> 0]
    /\ wfail = [c \in Ctx |-> FALSE]
    /\ reassert = [c \in Ctx |-> FALSE]
    /\ perm_since = Some(FALSE)
    /\ perm_unlocked = FALSE
    /\ qseq = <<>> /\ last_dequeued = 0 /\ tick_first = 0 /\ exc_seq = 0
    /\ instances = 0 /\ missed = FALSE
    /\ mainpc = "init" /\ HARDWARE_AVAILABLE = FALSE
    /\ relay \in {0, 1}
    /\ jobs = <<>>
    /\ wiegand_queue = <<>> /\ unfinished_tasks = 0 /\ cardsLeft = MaxCards
    /\ accessLog = <<>>
    /\ tpc = "idle" /\ uid = <<>> /\ processed = 0
    /\ decision = NoDecision /\ now_local = NoTime
    /\ rop = [c \in Ctx |-> "none"] /\ rpc = [c \in Ctx |-> "none"]
    /\ conn = [c \in Ctx |-> FALSE] /\ res = [c \in Ctx |-> FALSE]
    /\ secErr = [c \in Ctx |-> FALSE]

SpecLatch == LatchInit /\ [][EngineNext]_vars

\* C37: after a successful setup the relay is at the locked level whenever no
\* momentary open is under way and no permanent unlock has succeeded since the
\* last lock_door that succeeded and the last momentary open that completed.
C37_LockedOutsideWindows ==
    (/\ mainpc = "running" /\ HARDWARE_AVAILABLE
     /\ \A c \in Ctx : rop[c] # "open"
     /\ perm_since = Some(FALSE))
        => relay = 1


DrainNext ==
    \/ MainInit
    \/ \E c \in CardIds : ReaderEnqueue(c)
    \/ TickStart
    \/ TickRun

SpecDrain == EngineInit /\ [][DrainNext]_vars

SpecDrainFair == SpecDrain /\ WF_vars(TickStart) /\ WF_vars(TickRun)

\* the item with arrival number k is in the queue
Queued(k) == \E i \in 1..Len(qseq) : qseq[i] = k

\* C39: every credential put into the queue is taken out by some tick, never
\* to return: again and again the queue is empty with no item waiting for its
\* decision, an item leaves the queue only into the lookup of a tick, and an
\* item that was taken is not queued again.
C39_EveryCredentialDequeued ==
    /\ []<>(qseq = <<>> /\ tpc # "lookup")
    /\ [][\A k \in 1..MaxCards :
            (~Queued(k) /\ last_dequeued >= k) => (~Queued(k))']_vars
    /\ [][\A k \in 1..MaxCards :
            (Queued(k) /\ ~(Queued(k))') => (tpc' = "lookup" /\ last_dequeued' = k)]_vars

\* both cards were queued together and both have been taken
C39_Witness ==
    /\ cardsLeft = 0 /\ wiegand_queue = <<>>
    /\ last_dequeued = MaxCards /\ tick_first = 0
    /\ tpc = "idle" /\ processed = MaxCards

=============================================================================
